---- MODULE Spec2Model ----
(***************************************************************************)
(* Baseball Monte Carlo simulation engine: the half-inning loop            *)
(* (src/engine/inning.py), the base-state advancement function and the     *)
(* situational modifiers (src/models), the plate-appearance sampler        *)
(* (src/engine/pa_generator.py), the batch runner                          *)
(* (src/simulation/batch.py) and its threaded wrapper                      *)
(* (src/gui/utils/simulation_runner.py).                                   *)
(*                                                                         *)
(* Probabilities and uniform variates are fixed-point numbers in units of  *)
(* 1/10000: the variate u stands for the float u/10000 in [0, 1).          *)
(***************************************************************************)
EXTENDS Integers, Sequences, FiniteSets, TLC

VARIABLES
    config,      \* the module-level switches of config.py read by the engine
    lineup,      \* which lineup of 9 Player records is handed to the engine
    inning,      \* the locals of simulate_half_inning
    pc,          \* position inside simulate_half_inning's loop
    adv,         \* one advance_runners call: its arguments and its result
    runs2,       \* two direct run_simulations calls (same arguments)
    sim_runner,  \* one SimulationRunner, its worker thread and its callbacks
    call         \* one call of a library function: its arguments and its result

vars == <<config, lineup, inning, pc, adv, runs2, sim_runner, call>>

-----------------------------------------------------------------------------
(* Bounds of the model *)

\* plate appearances explored in one half-inning
MaxPA == 4
\* largest iteration count explored by the threaded batch run
MaxIter == 201
\* iteration counts explored by the two side-by-side run_simulations calls
MaxDetIter == 2
\* games per season explored by the batch runs
MaxGames == 1
\* innings per game explored by the batch runs
InningsPerGame == 2

\* games of the season that is explored half-inning by half-inning
SeasonGames == 2
\* bits of a float's mantissa in the win-probability arithmetic
MantissaBits == 12
\* seasons in the array handed to _calculate_win_probability
MaxSeasons == 3

-----------------------------------------------------------------------------
(* Program constants, in units of 1/10000 where they are probabilities *)

None == 0
NoData == 0 - 1
Scale == 100 * 100

MIN_SB_ATTEMPTS_FOR_RATE == 5
SB_ATTEMPT_SCALE == 10000
FLYOUT_PERCENTAGE == 3500
DEFAULT_K_PCT == 2200
single_1st_to_3rd == 2800
double_1st_scores == 6000
double_2nd_scores == 9800
ERROR_RATE_PER_PA == 150
TEAM_AVG_RATE == 500
DEFAULT_SB_SUCCESS == 7500
PROGRESS_EVERY == 100
LINEUP_SIZE == 9

Outcomes == <<"OUT", "STRIKEOUT", "WALK", "SINGLE", "DOUBLE", "TRIPLE", "HR">>

ConfigFlags == [ENABLE_STOLEN_BASES : BOOLEAN,
                ENABLE_SACRIFICE_FLIES : BOOLEAN,
                ENABLE_PROBABILISTIC_BASERUNNING : BOOLEAN,
                ENABLE_ERRORS_WILD_PITCHES : BOOLEAN]

-----------------------------------------------------------------------------
(* The random stream: np.random.RandomState                                *)

\* A stream is either a tape of the variates it will return next (any
\* values: the stream seen from inside one function) or a seeded generator
\* whose every variate is a function of the seed and the number of calls.
TapeRng(t) == [kind |-> "tape", tape |-> t, state |-> 0]

SeededRng(seed) == [kind |-> "seeded", tape |-> <<>>, state |-> seed % Scale]

\* variant: the seed argument is dropped, the stream starts from OS entropy
RandomState_IgnoresSeed(random_state, entropy) == SeededRng(entropy)

\* np.random.RandomState(random_state): seeded from random_state when one is
\* given, from the operating system's entropy otherwise
RandomState(random_state, entropy) ==
    IF random_state = NoData THEN SeededRng(entropy) ELSE SeededRng(random_state)

\* rng.random(): <<variate, stream afterwards>>
Random(rng) ==
    IF rng.kind = "tape"
    THEN <<Head(rng.tape), [rng EXCEPT !.tape = Tail(@)]>>
    ELSE LET s == (rng.state * 4621 + 3571) % Scale
         IN  <<s, [rng EXCEPT !.state = s]>>

\* Representative variates: both sides of every threshold the code compares
\* a variate with, and one variate inside every outcome's interval.
Uniform == {0, 150, 151, 3000, 5000, 7000, 8000, 9500, 9800, 9900}

UniformCoarse == {0, 3000, 7000, 9900}

-----------------------------------------------------------------------------
(* Players and lineups *)

\* decompose_slash_line(.280, .350, .450): ISO .170, no strikeout rate given
DefaultPaProbs ==
    [OUT |-> 4300, STRIKEOUT |-> DEFAULT_K_PCT, WALK |-> 700, SINGLE |-> 2044,
     DOUBLE |-> 518, TRIPLE |-> 56, HR |-> 182]

\* decompose_slash_line(.280, .350, .450, k_pct=0.0)
ContactPaProbs ==
    [OUT |-> 6500, STRIKEOUT |-> 0, WALK |-> 700, SINGLE |-> 2044,
     DOUBLE |-> 518, TRIPLE |-> 56, HR |-> 182]

Player(id, sb, cs, probs) ==
    [id |-> id, ba |-> 2800, obp |-> 3500, pa |-> 500, sb |-> sb, cs |-> cs,
     pa_probs |-> probs]

\* a lineup of 9 distinct players: one with many steal attempts, one with
\* few, one with none, the others without stolen-base data
MakeLineup(probs) ==
    [i \in 1..LINEUP_SIZE |->
        CASE i = 1 -> Player(i, 30, 5, probs)
          [] i = 2 -> Player(i, 2, 1, probs)
          [] i = 3 -> Player(i, 0, 0, probs)
          [] OTHER -> Player(i, NoData, NoData, probs)]

DefaultLineup == MakeLineup(DefaultPaProbs)

ContactLineup == MakeLineup(ContactPaProbs)

\* a list of only 8 players
ShortLineup == SubSeq(ContactLineup, 1, LINEUP_SIZE - 1)

\* the lineups explored, by name
LineupOf(name) ==
    IF name = "contact" THEN ContactLineup
    ELSE IF name = "short" THEN ShortLineup
    ELSE DefaultLineup

\* the Player object a base refers to
PlayerOf(lu, id) == lu[id]

-----------------------------------------------------------------------------
(* src/models/baserunning.py *)

CreateEmptyBases == [first |-> None, second |-> None, third |-> None]

CountRunnersOnBase(bases) ==
    (IF bases.first # None THEN 1 ELSE 0) + (IF bases.second # None THEN 1 ELSE 0)
    + (IF bases.third # None THEN 1 ELSE 0)

AdvResult(bases, runs_scored, rng, raised) ==
    [bases |-> bases, runs_scored |-> runs_scored, rng |-> rng, raised |-> raised]

\* variant: bases_after is left as the empty bases it was created as
AdvanceOut_ClearsBases(bases_before, rng) ==
    AdvResult(CreateEmptyBases, 0, rng, FALSE)

AdvanceOut(bases_before, rng) == AdvResult(bases_before, 0, rng, FALSE)

AdvanceWalk(bases_before, batter, rng) ==
    LET loaded == bases_before.first # None /\ bases_before.second # None
                  /\ bases_before.third # None
        third == IF bases_before.second # None /\ bases_before.first # None
                 THEN bases_before.second
                 ELSE IF bases_before.third # None THEN bases_before.third
                 ELSE None
        second == IF bases_before.first # None THEN bases_before.first ELSE None
    IN  AdvResult([first |-> batter, second |-> second, third |-> third],
                  IF loaded THEN 1 ELSE 0, rng, FALSE)

\* variant: in probabilistic mode the runner from first goes for third
\* whatever the variate
AdvanceSingle_AlwaysAggressive(use_probabilistic, bases_before, batter, rng) ==
    LET runs == IF bases_before.third # None THEN 1 ELSE 0
        third0 == bases_before.second
        draws == bases_before.first # None /\ use_probabilistic
        d == IF draws THEN Random(rng) ELSE <<0, rng>>
        third == IF draws /\ third0 = None THEN bases_before.first ELSE third0
        second == IF bases_before.first # None /\ ~(draws /\ third0 = None)
                  THEN bases_before.first ELSE None
    IN  AdvResult([first |-> batter, second |-> second, third |-> third],
                  runs, d[2], FALSE)

\* variant: the aggressive runner takes third without looking whether the
\* runner from second is there
AdvanceSingle_TakesThird(use_probabilistic, bases_before, batter, rng) ==
    LET runs == IF bases_before.third # None THEN 1 ELSE 0
        third0 == bases_before.second
        draws == bases_before.first # None /\ use_probabilistic
        d == IF draws THEN Random(rng) ELSE <<0, rng>>
        aggressive == draws /\ d[1] < single_1st_to_3rd
        third == IF aggressive THEN bases_before.first ELSE third0
        second == IF bases_before.first # None /\ ~aggressive
                  THEN bases_before.first ELSE None
    IN  AdvResult([first |-> batter, second |-> second, third |-> third],
                  runs, d[2], FALSE)

AdvanceSingle(use_probabilistic, bases_before, batter, rng) ==
    LET runs == IF bases_before.third # None THEN 1 ELSE 0
        third0 == bases_before.second
        draws == bases_before.first # None /\ use_probabilistic
        d == IF draws THEN Random(rng) ELSE <<0, rng>>
        aggressive == draws /\ d[1] < single_1st_to_3rd
        third == IF bases_before.first # None /\ aggressive /\ third0 = None
                 THEN bases_before.first ELSE third0
        second == IF bases_before.first # None /\ ~(aggressive /\ third0 = None)
                  THEN bases_before.first ELSE None
    IN  AdvResult([first |-> batter, second |-> second, third |-> third],
                  runs, d[2], FALSE)

AdvanceDouble(use_probabilistic, bases_before, batter, rng) ==
    LET runs3 == IF bases_before.third # None THEN 1 ELSE 0
        draws2 == bases_before.second # None /\ use_probabilistic
        d2 == IF draws2 THEN Random(rng) ELSE <<0, rng>>
        second_scores == bases_before.second # None
                         /\ (~use_probabilistic \/ d2[1] < double_2nd_scores)
        third0 == IF bases_before.second # None /\ ~second_scores
                  THEN bases_before.second ELSE None
        draws1 == bases_before.first # None /\ use_probabilistic
        d1 == IF draws1 THEN Random(d2[2]) ELSE <<0, d2[2]>>
        first_scores == draws1 /\ d1[1] < double_1st_scores
        third == IF bases_before.first # None /\ ~first_scores
                 THEN bases_before.first ELSE third0
    IN  AdvResult([first |-> None, second |-> batter, third |-> third],
                  runs3 + (IF second_scores THEN 1 ELSE 0)
                        + (IF first_scores THEN 1 ELSE 0),
                  d1[2], FALSE)

\* variant: the batter who stops on third is counted as a run as well
AdvanceTriple_CountsBatter(bases_before, batter, rng) ==
    AdvResult([first |-> None, second |-> None, third |-> batter],
              1 + CountRunnersOnBase(bases_before), rng, FALSE)

AdvanceTriple(bases_before, batter, rng) ==
    AdvResult([first |-> None, second |-> None, third |-> batter],
              CountRunnersOnBase(bases_before), rng, FALSE)

\* variant: runs_scored starts at 0, the batter's own run is lost
AdvanceHR_ForgetsBatter(bases_before, rng) ==
    AdvResult(CreateEmptyBases, CountRunnersOnBase(bases_before), rng, FALSE)

AdvanceHR(bases_before, rng) ==
    AdvResult(CreateEmptyBases, 1 + CountRunnersOnBase(bases_before), rng, FALSE)

\* advance_runners(hit_type, bases_before, batter, rng); raised stands for
\* the ValueError of an unknown hit type
AdvanceRunners(cfg, hit_type, bases_before, batter, rng) ==
    LET use_probabilistic == cfg.ENABLE_PROBABILISTIC_BASERUNNING
    IN  CASE hit_type = "OUT" -> AdvanceOut(bases_before, rng)
          [] hit_type = "WALK" -> AdvanceWalk(bases_before, batter, rng)
          [] hit_type = "SINGLE" ->
                 AdvanceSingle(use_probabilistic, bases_before, batter, rng)
          [] hit_type = "DOUBLE" ->
                 AdvanceDouble(use_probabilistic, bases_before, batter, rng)
          [] hit_type = "TRIPLE" -> AdvanceTriple(bases_before, batter, rng)
          [] hit_type = "HR" -> AdvanceHR(bases_before, rng)
          [] OTHER -> AdvResult(CreateEmptyBases, 0, rng, TRUE)

-----------------------------------------------------------------------------
(* src/models/stolen_bases.py *)

\* calculate_sb_rate(player, team_avg_rate): <<attempt_rate, success_rate>>
CalculateSbRate(player, team_avg_rate) ==
    IF player.sb = NoData \/ player.cs = NoData
    THEN <<team_avg_rate, DEFAULT_SB_SUCCESS>>
    ELSE LET total_attempts == player.sb + player.cs
             success_rate == IF total_attempts > 0
                             THEN (player.sb * Scale) \div total_attempts
                             ELSE DEFAULT_SB_SUCCESS
             \* ba*pa + (obp - ba)*pa, here times Scale
             times_on_base == player.ba * player.pa
                              + (player.obp - player.ba) * player.pa
             attempt_rate == IF times_on_base \div Scale > 0
                             THEN (total_attempts * Scale) \div (times_on_base \div Scale)
                             ELSE team_avg_rate
         IN  IF total_attempts < MIN_SB_ATTEMPTS_FOR_RATE
             THEN <<team_avg_rate, success_rate>>
             ELSE <<(attempt_rate * SB_ATTEMPT_SCALE) \div Scale, success_rate>>

\* variant: a runner may go with 2 outs as well
ShouldAttemptSteal_AnyOuts(runner, base, outs, rng, team_avg_rate) ==
    IF base \notin {"first", "second"} THEN <<FALSE, rng>>
    ELSE LET d == Random(rng)
         IN  <<d[1] < CalculateSbRate(runner, team_avg_rate)[1], d[2]>>

\* should_attempt_steal: <<attempt?, rng afterwards>>; no variate is drawn
\* with 2 outs or from a base other than first or second
ShouldAttemptSteal(runner, base, outs, rng, team_avg_rate) ==
    IF outs >= 2 THEN <<FALSE, rng>>
    ELSE IF base \notin {"first", "second"} THEN <<FALSE, rng>>
    ELSE LET d == Random(rng)
         IN  <<d[1] < CalculateSbRate(runner, team_avg_rate)[1], d[2]>>

\* variant: a runner caught stealing is left on his base
AttemptStolenBase_CaughtStays(runner, from_base, bases_before, rng, team_avg_rate) ==
    LET d == Random(rng)
        successful == d[1] < CalculateSbRate(runner, team_avg_rate)[2]
        moved == IF from_base = "first"
                 THEN [bases_before EXCEPT !.first = None, !.second = runner.id]
                 ELSE IF from_base = "second"
                 THEN [bases_before EXCEPT !.second = None, !.third = runner.id]
                 ELSE bases_before
    IN  [bases |-> IF successful THEN moved ELSE bases_before,
         successful |-> successful, caught |-> ~successful, rng |-> d[2]]

\* attempt_stolen_base: [bases, successful, caught, rng]
AttemptStolenBase(runner, from_base, bases_before, rng, team_avg_rate) ==
    LET d == Random(rng)
        successful == d[1] < CalculateSbRate(runner, team_avg_rate)[2]
        moved == IF from_base = "first"
                 THEN [bases_before EXCEPT !.first = None, !.second = runner.id]
                 ELSE IF from_base = "second"
                 THEN [bases_before EXCEPT !.second = None, !.third = runner.id]
                 ELSE bases_before
        removed == IF from_base = "first"
                   THEN [bases_before EXCEPT !.first = None]
                   ELSE IF from_base = "second"
                   THEN [bases_before EXCEPT !.second = None]
                   ELSE bases_before
    IN  [bases |-> IF successful THEN moved ELSE removed,
         successful |-> successful, caught |-> ~successful, rng |-> d[2]]

StealResult(bases, additional_outs, rng) ==
    [bases |-> bases, additional_outs |-> additional_outs, rng |-> rng]

\* the check of first base, on the bases the check of second base left
StealFromFirst(lu, bases, outs, rng, outs_so_far) ==
    IF bases.first # None /\ bases.second = None
    THEN LET s1 == ShouldAttemptSteal(PlayerOf(lu, bases.first), "first", outs,
                                      rng, TEAM_AVG_RATE)
         IN  IF s1[1]
             THEN LET a == AttemptStolenBase(PlayerOf(lu, bases.first), "first",
                                             bases, s1[2], TEAM_AVG_RATE)
                  IN  StealResult(a.bases, outs_so_far + (IF a.caught THEN 1 ELSE 0),
                                  a.rng)
             ELSE StealResult(bases, outs_so_far, s1[2])
    ELSE StealResult(bases, outs_so_far, rng)

\* variant: the check of second base does not return after an attempt, the
\* check of first base follows on the bases it left
CheckStealOpportunities_BothMayRun(cfg, lu, bases, outs, rng) ==
    IF ~cfg.ENABLE_STOLEN_BASES THEN StealResult(bases, 0, rng)
    ELSE IF bases.second # None /\ bases.third = None
    THEN LET s2 == ShouldAttemptSteal(PlayerOf(lu, bases.second), "second", outs,
                                      rng, TEAM_AVG_RATE)
         IN  IF s2[1]
             THEN LET a == AttemptStolenBase(PlayerOf(lu, bases.second), "second",
                                             bases, s2[2], TEAM_AVG_RATE)
                  IN  StealFromFirst(lu, a.bases, outs, a.rng,
                                     IF a.caught THEN 1 ELSE 0)
             ELSE StealFromFirst(lu, bases, outs, s2[2], 0)
    ELSE StealFromFirst(lu, bases, outs, rng, 0)

\* check_steal_opportunities(bases, outs, rng, team_avg_rate=0.05)
CheckStealOpportunities(cfg, lu, bases, outs, rng) ==
    IF ~cfg.ENABLE_STOLEN_BASES THEN StealResult(bases, 0, rng)
    ELSE
    LET try2 == bases.second # None /\ bases.third = None
        s2 == IF try2
              THEN ShouldAttemptSteal(PlayerOf(lu, bases.second), "second", outs,
                                      rng, TEAM_AVG_RATE)
              ELSE <<FALSE, rng>>
        try1 == bases.first # None /\ bases.second = None
        s1 == IF try1
              THEN ShouldAttemptSteal(PlayerOf(lu, bases.first), "first", outs,
                                      s2[2], TEAM_AVG_RATE)
              ELSE <<FALSE, s2[2]>>
    IN  IF s2[1]
        THEN LET a == AttemptStolenBase(PlayerOf(lu, bases.second), "second",
                                        bases, s2[2], TEAM_AVG_RATE)
             IN  StealResult(a.bases, IF a.caught THEN 1 ELSE 0, a.rng)
        ELSE IF s1[1]
        THEN LET a == AttemptStolenBase(PlayerOf(lu, bases.first), "first",
                                        bases, s1[2], TEAM_AVG_RATE)
             IN  StealResult(a.bases, IF a.caught THEN 1 ELSE 0, a.rng)
        ELSE StealResult(bases, 0, s1[2])

-----------------------------------------------------------------------------
(* src/models/sacrifice_fly.py *)

SfResult(bases, runs_scored, is_sf, rng) ==
    [bases |-> bases, runs_scored |-> runs_scored, is_sf |-> is_sf, rng |-> rng]

\* variant: the number of outs is not looked at
CheckSacrificeFly_AnyOuts(cfg, bases, outs, rng) ==
    IF ~cfg.ENABLE_SACRIFICE_FLIES THEN SfResult(bases, 0, FALSE, rng)
    ELSE IF bases.third = None THEN SfResult(bases, 0, FALSE, rng)
    ELSE LET d == Random(rng)
             is_flyout == d[1] < FLYOUT_PERCENTAGE
         IN  IF ~is_flyout THEN SfResult(bases, 0, FALSE, d[2])
             ELSE SfResult([bases EXCEPT !.third = None], 1, TRUE, d[2])

\* check_sacrifice_fly(bases, outs, rng)
CheckSacrificeFly(cfg, bases, outs, rng) ==
    IF ~cfg.ENABLE_SACRIFICE_FLIES THEN SfResult(bases, 0, FALSE, rng)
    ELSE IF outs >= 2 THEN SfResult(bases, 0, FALSE, rng)
    ELSE IF bases.third = None THEN SfResult(bases, 0, FALSE, rng)
    ELSE LET d == Random(rng)
             is_flyout == d[1] < FLYOUT_PERCENTAGE
         IN  IF ~is_flyout THEN SfResult(bases, 0, FALSE, d[2])
             ELSE SfResult([bases EXCEPT !.third = None], 1, TRUE, d[2])

-----------------------------------------------------------------------------
(* src/models/errors.py *)

ErrResult(bases, runs_scored, rng) ==
    [bases |-> bases, runs_scored |-> runs_scored, rng |-> rng]

\* variant: the copy's first base is not cleared
CheckErrorAdvancesRunner_KeepsFirst(cfg, bases, rng) ==
    IF ~cfg.ENABLE_ERRORS_WILD_PITCHES THEN ErrResult(bases, 0, rng)
    ELSE LET d == Random(rng)
         IN  IF d[1] > ERROR_RATE_PER_PA THEN ErrResult(bases, 0, d[2])
             ELSE ErrResult([first |-> bases.first, second |-> bases.first,
                             third |-> bases.second],
                            IF bases.third # None THEN 1 ELSE 0, d[2])

\* variant: the runner from third leaves the bases without his run
CheckErrorAdvancesRunner_NoRun(cfg, bases, rng) ==
    IF ~cfg.ENABLE_ERRORS_WILD_PITCHES THEN ErrResult(bases, 0, rng)
    ELSE LET d == Random(rng)
         IN  IF d[1] > ERROR_RATE_PER_PA THEN ErrResult(bases, 0, d[2])
             ELSE ErrResult([first |-> None, second |-> bases.first,
                             third |-> bases.second],
                            0, d[2])

\* check_error_advances_runner(bases, rng)
CheckErrorAdvancesRunner(cfg, bases, rng) ==
    IF ~cfg.ENABLE_ERRORS_WILD_PITCHES THEN ErrResult(bases, 0, rng)
    ELSE LET d == Random(rng)
         IN  IF d[1] > ERROR_RATE_PER_PA THEN ErrResult(bases, 0, d[2])
             ELSE ErrResult([first |-> None, second |-> bases.first,
                             third |-> bases.second],
                            IF bases.third # None THEN 1 ELSE 0, d[2])

-----------------------------------------------------------------------------
(* src/engine/pa_generator.py *)

RECURSIVE CumSum(_, _)
\* np.cumsum over the outcomes in their fixed order, up to the i-th
CumSum(probs, i) == IF i = 0 THEN 0 ELSE CumSum(probs, i - 1) + probs[Outcomes[i]]

\* variant: the comparison is "rand <= cum_prob"
RECURSIVE FirstExceeding_OrEqual(_, _, _)
FirstExceeding_OrEqual(probs, rand, i) ==
    IF i > Len(Outcomes) THEN "OUT"
    ELSE IF rand <= CumSum(probs, i) THEN Outcomes[i]
    ELSE FirstExceeding_OrEqual(probs, rand, i + 1)

\* lines 41-46: the first outcome with rand < cum_prob, 'OUT' when there is none
RECURSIVE FirstExceeding(_, _, _)
FirstExceeding(probs, rand, i) ==
    IF i > Len(Outcomes) THEN "OUT"
    ELSE IF rand < CumSum(probs, i) THEN Outcomes[i]
    ELSE FirstExceeding(probs, rand, i + 1)

\* PAOutcomeGenerator.generate_outcome(player): <<outcome, rng afterwards>>
GenerateOutcome(player, rng) ==
    LET d == Random(rng)
    IN  <<FirstExceeding(player.pa_probs, d[1], 1), d[2]>>

-----------------------------------------------------------------------------
(* src/engine/inning.py: simulate_half_inning *)

\* the locals after "Initialize state" and "Track stats"
NewInning(starting_batter_idx) ==
    [outs |-> 0, bases |-> CreateEmptyBases, runs |-> 0,
     batter_idx |-> starting_batter_idx, pa_count |-> 0, hits |-> 0,
     walks |-> 0, lob |-> 0, sb_attempts |-> 0, sb_success |-> 0,
     sac_flies |-> 0, outcome |-> "NONE", is_sf |-> FALSE, raised |-> FALSE,
     error |-> "", starting_batter_idx |-> starting_batter_idx]

\* "Check for stolen base attempts BEFORE the PA": <<locals, rng>>
StealPhase(cfg, lu, h, rng) ==
    IF ~cfg.ENABLE_STOLEN_BASES THEN <<h, rng>>
    ELSE LET r == CheckStealOpportunities(cfg, lu, h.bases, h.outs, rng)
             attempted == r.bases # h.bases
         IN  <<[h EXCEPT
                  !.sb_attempts = IF attempted THEN @ + 1 ELSE @,
                  !.sb_success = IF attempted /\ r.additional_outs = 0
                                 THEN @ + 1 ELSE @,
                  !.bases = r.bases,
                  !.outs = @ + r.additional_outs],
               r.rng>>

\* "Check for errors/wild pitches during PA": <<locals, rng>>
ErrorPhase(cfg, h, rng) ==
    IF ~cfg.ENABLE_ERRORS_WILD_PITCHES THEN <<h, rng>>
    ELSE LET r == CheckErrorAdvancesRunner(cfg, h.bases, rng)
         IN  IF r.runs_scored > 0 \/ r.bases # h.bases
             THEN <<[h EXCEPT !.runs = @ + r.runs_scored, !.bases = r.bases],
                    r.rng>>
             ELSE <<h, r.rng>>

\* variant: a sacrifice fly converts the out
RecordOut_SacFlyNoOut(outs, is_sf) == IF is_sf THEN outs ELSE outs + 1

\* "outs += 1" of the OUT branch, reached whether or not is_sf
RecordOut(outs, is_sf) == outs + 1

\* variant: the order wraps around one batter early
NextBatter_WrapsEarly(batter_idx) == (batter_idx + 1) % (LINEUP_SIZE - 1)

\* line 113: batter_idx = (batter_idx + 1) % 9
NextBatter(batter_idx) == (batter_idx + 1) % LINEUP_SIZE

\* the plate appearance: sample the outcome, handle it, advance the batter;
\* raised stands for the ValueError that leaves advance_runners
PAPhase(cfg, lu, h, rng) ==
    LET batter == lu[h.batter_idx + 1]
        g == GenerateOutcome(batter, rng)
        outcome == g[1]
        h1 == [h EXCEPT !.outcome = outcome, !.pa_count = @ + 1]
    IN  IF outcome = "OUT"
        THEN LET sf == CheckSacrificeFly(cfg, h.bases, h.outs, g[2])
             IN  <<[h1 EXCEPT
                      !.is_sf = sf.is_sf,
                      !.sac_flies = IF sf.is_sf THEN @ + 1 ELSE @,
                      !.runs = IF sf.is_sf THEN @ + sf.runs_scored ELSE @,
                      !.bases = IF sf.is_sf THEN sf.bases ELSE @,
                      !.outs = RecordOut(@, sf.is_sf),
                      !.batter_idx = NextBatter(@)],
                   sf.rng>>
        ELSE LET a == AdvanceRunners(cfg, outcome, h.bases, batter.id, g[2])
             IN  IF a.raised
                 THEN <<[h1 EXCEPT !.raised = TRUE, !.error = "Unknown hit type"],
                        a.rng>>
                 ELSE <<[h1 EXCEPT
                           !.bases = a.bases,
                           !.runs = @ + a.runs_scored,
                           !.walks = IF outcome = "WALK" THEN @ + 1 ELSE @,
                           !.hits = IF outcome = "WALK" THEN @ ELSE @ + 1,
                           !.batter_idx = NextBatter(@)],
                        a.rng>>

\* "Calculate LOB" and the return
FinishInning(h) == [h EXCEPT !.lob = CountRunnersOnBase(h.bases)]

-----------------------------------------------------------------------------
(* Specification Spec: one call of simulate_half_inning, the random stream  *)
(* returning any variates                                                   *)

AdvIdle == [phase |-> "idle"]


RunnerIdle == [phase |-> "idle"]

Runs2Idle == <<>>

CallIdle == [fn |-> "idle"]

\* starting batter indices explored: the top of the order, and one from which
\* the order wraps around within the explored plate appearances
StartingIdx == {0, LINEUP_SIZE - 2}

Init ==
    /\ config \in ConfigFlags
    /\ lineup = "default"
    /\ \E start \in StartingIdx : inning = NewInning(start)
    /\ pc = "steal"
    /\ adv = AdvIdle
    /\ runs2 = Runs2Idle
    /\ sim_runner = RunnerIdle
    /\ call = CallIdle

\* variant: the error check comes first, then the steal check, then the
\* plate appearance
Following_ErrorFirst(phase) ==
    CASE phase = "error" -> "steal"
      [] phase = "steal" -> "pa"
      [] phase = "pa" -> "error"

\* the order of one iteration of the loop: the steal check (lines 53-70),
\* the error check (lines 72-79), the plate appearance (lines 81-113), and
\* the steal check of the next iteration
Following(phase) ==
    CASE phase = "steal" -> "error"
      [] phase = "error" -> "pa"
      [] phase = "pa" -> "steal"

\* lines 53-70: the steal check and the break on a third out
StealCheck ==
    /\ pc = "steal"
    /\ inning.outs < 3
    /\ \E h \in {StealPhase(config, LineupOf(lineup), inning, TapeRng(t))[1] :
                    t \in UniformCoarse \X UniformCoarse \X UniformCoarse} :
          IF config.ENABLE_STOLEN_BASES /\ h.outs >= 3
          THEN inning' = FinishInning(h) /\ pc' = "returned"
          ELSE inning' = h /\ pc' = Following("steal")
    /\ UNCHANGED <<config, lineup, adv, runs2, sim_runner, call>>

\* lines 72-79: the error / wild pitch check
ErrorCheck ==
    /\ pc = "error"
    /\ \E h \in {ErrorPhase(config, inning, TapeRng(<<u>>))[1] : u \in Uniform} :
          inning' = h
    /\ pc' = Following("error")
    /\ UNCHANGED <<config, lineup, adv, runs2, sim_runner, call>>

\* lines 81-113, then the loop test of line 52 and the return
PlateAppearance ==
    /\ pc = "pa"
    /\ inning.pa_count < MaxPA
    /\ \E h \in {PAPhase(config, LineupOf(lineup), inning, TapeRng(t))[1] :
                    t \in Uniform \X UniformCoarse \X UniformCoarse} :
          IF h.raised
          THEN inning' = h /\ pc' = "raised"
          ELSE IF h.outs < 3
          THEN inning' = h /\ pc' = Following("pa")
          ELSE inning' = FinishInning(h) /\ pc' = "returned"
    /\ UNCHANGED <<config, lineup, adv, runs2, sim_runner, call>>

Next == StealCheck \/ ErrorCheck \/ PlateAppearance

Spec == Init /\ [][Next]_vars

-----------------------------------------------------------------------------
(* Specification SpecAdv: one call of advance_runners on any base state     *)

\* players that can be the batter or a runner in a single call
AdvPlayers == 1..4

AdvBases ==
    {b \in [first : AdvPlayers \cup {None}, second : AdvPlayers \cup {None},
            third : AdvPlayers \cup {None}] :
        /\ b.first # None => b.first \notin {b.second, b.third}
        /\ b.second # None => b.second # b.third}

AdvInit ==
    /\ config \in {c \in ConfigFlags :
                     c.ENABLE_STOLEN_BASES /\ c.ENABLE_SACRIFICE_FLIES
                     /\ c.ENABLE_ERRORS_WILD_PITCHES}
    /\ lineup = "default"
    /\ inning = NewInning(0)
    /\ pc = "idle"
    /\ \E hit_type \in {Outcomes[i] : i \in 1..Len(Outcomes)},
          bases_before \in AdvBases, batter \in AdvPlayers :
          /\ batter \notin {bases_before.first, bases_before.second,
                            bases_before.third}
          /\ adv = [phase |-> "args", hit_type |-> hit_type,
                    bases_before |-> bases_before, batter |-> batter,
                    bases_after |-> CreateEmptyBases, runs_scored |-> 0,
                    raised |-> FALSE]
    /\ runs2 = Runs2Idle
    /\ sim_runner = RunnerIdle
    /\ call = CallIdle

\* advance_runners(hit_type, bases_before, batter, rng)
AdvCall ==
    /\ adv.phase = "args"
    /\ \E t \in UniformCoarse \X UniformCoarse :
          LET r == AdvanceRunners(config, adv.hit_type, adv.bases_before,
                                  adv.batter, TapeRng(t))
          IN  adv' = [adv EXCEPT !.phase = "called", !.bases_after = r.bases,
                                 !.runs_scored = r.runs_scored,
                                 !.raised = r.raised]
    /\ UNCHANGED <<config, lineup, inning, pc, runs2, sim_runner, call>>

AdvNext == AdvCall

SpecAdv == AdvInit /\ [][AdvNext]_vars

-----------------------------------------------------------------------------
(* src/simulation/season.py: simulate_season (with the game loop it drives) *)

\* the plate appearance that follows an error check which left
\* <<locals, rng>> = e
AfterError(cfg, lu, e) == PAPhase(cfg, lu, e[1], e[2])

\* the rest of the loop body after the steal check left <<locals, rng>> = s:
\* "if outs >= 3: break", else error check and plate appearance
AfterSteal(cfg, lu, s) ==
    IF cfg.ENABLE_STOLEN_BASES /\ s[1].outs >= 3 THEN s
    ELSE AfterError(cfg, lu, ErrorPhase(cfg, s[1], s[2]))

\* one pass through the body of simulate_half_inning's loop: <<locals, rng>>
LoopIteration(cfg, lu, st) ==
    AfterSteal(cfg, lu, StealPhase(cfg, lu, st[1], st[2]))

\* inning.py lines 34-41: the lineup check, then the initial locals
EnterHalfInning(lu, starting_batter_idx) ==
    IF Len(lu) # LINEUP_SIZE
    THEN [NewInning(starting_batter_idx) EXCEPT
            !.raised = TRUE, !.error = "Lineup must have exactly 9 batters"]
    ELSE NewInning(starting_batter_idx)

RECURSIVE RunHalfInning(_, _, _)
\* simulate_half_inning run to its end on one stream: <<locals, rng>>; the
\* locals have raised = TRUE when the call ended in the ValueError
RunHalfInning(cfg, lu, st) ==
    IF st[1].raised THEN st
    ELSE IF st[1].outs >= 3 THEN <<FinishInning(st[1]), st[2]>>
    ELSE RunHalfInning(cfg, lu, LoopIteration(cfg, lu, st))

\* the season totals before the first half-inning; total_pa, last_start and
\* last_next are history: the plate appearances simulated so far, the index
\* the latest half-inning was started with and the next-batter index it
\* returned
NewSeason(rng) ==
    [total_runs |-> 0, total_hits |-> 0, total_walks |-> 0, total_sb |-> 0,
     total_cs |-> 0, total_sf |-> 0, total_lob |-> 0, batter_idx |-> 0,
     raised |-> FALSE, error |-> "", rng |-> rng, total_pa |-> 0,
     last_start |-> NoData, last_next |-> NoData]

\* the totals after a half-inning that ended as r = <<locals, rng>>, the
\* batter index carried over
AddHalfInning(acc, r) ==
    IF r[1].raised
    THEN [acc EXCEPT !.raised = TRUE, !.error = r[1].error, !.rng = r[2],
                     !.total_pa = @ + r[1].pa_count,
                     !.last_start = r[1].starting_batter_idx]
    ELSE [acc EXCEPT
            !.total_runs = @ + r[1].runs,
            !.total_hits = @ + r[1].hits,
            !.total_walks = @ + r[1].walks,
            !.total_sb = @ + r[1].sb_success,
            !.total_cs = @ + (r[1].sb_attempts - r[1].sb_success),
            !.total_sf = @ + r[1].sac_flies,
            !.total_lob = @ + r[1].lob,
            !.batter_idx = r[1].batter_idx,
            !.rng = r[2],
            !.total_pa = @ + r[1].pa_count,
            !.last_start = r[1].starting_batter_idx,
            !.last_next = r[1].batter_idx]

\* variant: every game starts again at the top of the order
StartingIndex_TopOfGame(acc, remaining) ==
    IF remaining % InningsPerGame = 0 THEN 0 ELSE acc.batter_idx

\* the index the next half-inning starts with, remaining half-innings to go
StartingIndex(acc, remaining) == acc.batter_idx

\* one half-inning of the season played and added to the totals
SeasonHalfInning(cfg, lu, acc, remaining) ==
    AddHalfInning(acc, RunHalfInning(cfg, lu,
                           <<EnterHalfInning(lu, StartingIndex(acc, remaining)),
                             acc.rng>>))

RECURSIVE SeasonLoop(_, _, _, _)
\* the remaining half-innings of a season; an exception ends the season
SeasonLoop(cfg, lu, acc, remaining) ==
    IF remaining = 0 \/ acc.raised THEN acc
    ELSE SeasonLoop(cfg, lu, SeasonHalfInning(cfg, lu, acc, remaining),
                    remaining - 1)

\* the configuration error for a non-positive game count
RejectGames(acc) ==
    [acc EXCEPT !.raised = TRUE, !.error = "n_games must be positive"]

\* simulate_season(lineup, pa_gen, n_games)
SimulateSeason(cfg, lu, rng, n_games) ==
    IF n_games <= 0 THEN RejectGames(NewSeason(rng))
    ELSE SeasonLoop(cfg, lu, NewSeason(rng), n_games * InningsPerGame)

-----------------------------------------------------------------------------
(* src/simulation/batch.py: run_simulations *)

\* the seven totals of a season result, in the order of raw_data
SeasonTotals(result) ==
    <<result.total_runs, result.total_hits, result.total_walks, result.total_sb,
      result.total_cs, result.total_sf, result.total_lob>>

\* lines 80-93: the generator built from the seed and the empty collections;
\* simulated is history: the totals of the seasons simulated so far, in the
\* order of their simulation
RunStart(random_seed, entropy, n_iterations, n_games) ==
    [pc |-> "loop", i |-> 0, n_iterations |-> n_iterations, n_games |-> n_games,
     rng |-> RandomState(random_seed, entropy),
     season_runs |-> <<>>, season_hits |-> <<>>, season_walks |-> <<>>,
     season_sb |-> <<>>, season_cs |-> <<>>, season_sf |-> <<>>,
     season_lob |-> <<>>,
     calls |-> <<>>, error |-> "", pa_total |-> 0, simulated |-> <<>>]

\* variant: the report of a run without seasons is returned
RunLoopTest_EmptyReport(run) ==
    IF run.i < run.n_iterations THEN [run EXCEPT !.pc = "season"]
    ELSE [run EXCEPT !.pc = "returned"]

\* line 95: the loop test; the iteration starts or the function goes on to
\* its report (lines 116-223), where np.min of an empty array (line 138)
\* raises ValueError
RunLoopTest(run) ==
    IF run.i < run.n_iterations THEN [run EXCEPT !.pc = "season"]
    ELSE IF run.season_runs = <<>>
    THEN [run EXCEPT !.pc = "raised",
                     !.error = "zero-size array to reduction operation minimum"]
    ELSE [run EXCEPT !.pc = "returned"]

\* variant: the newest season is put in front of the earlier ones
AppendSeason_NewestFirst(run, result) ==
    IF result.raised
    THEN [run EXCEPT !.pc = "raised", !.rng = result.rng, !.error = result.error,
                     !.pa_total = @ + result.total_pa]
    ELSE [run EXCEPT
            !.pc = "progress",
            !.pa_total = @ + result.total_pa,
            !.rng = result.rng,
            !.simulated = Append(@, SeasonTotals(result)),
            !.season_runs = <<result.total_runs>> \o @,
            !.season_hits = <<result.total_hits>> \o @,
            !.season_walks = <<result.total_walks>> \o @,
            !.season_sb = <<result.total_sb>> \o @,
            !.season_cs = <<result.total_cs>> \o @,
            !.season_sf = <<result.total_sf>> \o @,
            !.season_lob = <<result.total_lob>> \o @]

\* lines 99-105: the season's totals appended; raised when the season ended
\* in an exception
AppendSeason(run, result) ==
    IF result.raised
    THEN [run EXCEPT !.pc = "raised", !.rng = result.rng, !.error = result.error,
                     !.pa_total = @ + result.total_pa]
    ELSE [run EXCEPT
            !.pc = "progress",
            !.pa_total = @ + result.total_pa,
            !.rng = result.rng,
            !.simulated = Append(@, SeasonTotals(result)),
            !.season_runs = Append(@, result.total_runs),
            !.season_hits = Append(@, result.total_hits),
            !.season_walks = Append(@, result.total_walks),
            !.season_sb = Append(@, result.total_sb),
            !.season_cs = Append(@, result.total_cs),
            !.season_sf = Append(@, result.total_sf),
            !.season_lob = Append(@, result.total_lob)]

\* lines 97-105: one season simulated and appended
RunSeason(cfg, lu, run) ==
    AppendSeason(run, SimulateSeason(cfg, lu, run.rng, run.n_games))

\* variant: the callback is due on every 100th completed iteration
ProgressDue_OnHundredth(i, n_iterations) ==
    (i + 1) % PROGRESS_EVERY = 0 \/ i = n_iterations - 1

\* line 113: i % 100 == 0 or i == n_iterations - 1
ProgressDue(i, n_iterations) == i % PROGRESS_EVERY = 0 \/ i = n_iterations - 1

\* variant: the callback's InterruptedError is swallowed and the loop goes on
RunNotify_KeepsGoing(run, stop) ==
    IF ~ProgressDue(run.i, run.n_iterations) \/ stop
    THEN [run EXCEPT !.pc = "loop", !.i = @ + 1]
    ELSE [run EXCEPT
            !.pc = "loop",
            !.calls = Append(@, <<run.i + 1, run.n_iterations,
                                  Len(run.season_runs)>>),
            !.i = @ + 1]

\* lines 112-114 with a callback that records its arguments (and, as a third
\* component, how many seasons were finished when it was called); stop = TRUE
\* is the callback raising InterruptedError
RunNotify(run, stop) ==
    IF ~ProgressDue(run.i, run.n_iterations)
    THEN [run EXCEPT !.pc = "loop", !.i = @ + 1]
    ELSE IF stop THEN [run EXCEPT !.pc = "interrupted"]
    ELSE [run EXCEPT
            !.pc = "loop",
            !.calls = Append(@, <<run.i + 1, run.n_iterations,
                                  Len(run.season_runs)>>),
            !.i = @ + 1]

RawData(run) ==
    <<run.season_runs, run.season_hits, run.season_walks, run.season_sb,
      run.season_cs, run.season_sf, run.season_lob>>

-----------------------------------------------------------------------------
(* Specification SpecDet: two run_simulations calls with the same seed,     *)
(* lineup, counts and configuration, each with its own entropy source       *)

Seeds == {42, 7, 2024}

Entropy == {1, 2}

BatchConfigs ==
    {c \in ConfigFlags :
        /\ c.ENABLE_STOLEN_BASES = c.ENABLE_ERRORS_WILD_PITCHES
        /\ c.ENABLE_SACRIFICE_FLIES = c.ENABLE_PROBABILISTIC_BASERUNNING}

DetInit ==
    /\ config \in BatchConfigs
    /\ lineup \in {"default", "contact", "short"}
    /\ inning = NewInning(0)
    /\ pc = "idle"
    /\ adv = AdvIdle
    /\ \E seed \in Seeds, n \in (0 - 1)..MaxDetIter, g \in (0 - 1)..MaxGames,
          e1 \in Entropy, e2 \in Entropy :
          runs2 = <<RunStart(seed, e1, n, g), RunStart(seed, e2, n, g)>>
    /\ sim_runner = RunnerIdle
    /\ call = CallIdle

DetLoopTest(r) ==
    /\ runs2[r].pc = "loop"
    /\ runs2' = [runs2 EXCEPT ![r] = RunLoopTest(@)]
    /\ UNCHANGED <<config, lineup, inning, pc, adv, sim_runner, call>>

DetSeason(r) ==
    /\ runs2[r].pc = "season"
    /\ runs2' = [runs2 EXCEPT ![r] = RunSeason(config, LineupOf(lineup), @)]
    /\ UNCHANGED <<config, lineup, inning, pc, adv, sim_runner, call>>

DetNotify(r) ==
    /\ runs2[r].pc = "progress"
    /\ runs2' = [runs2 EXCEPT ![r] = RunNotify(@, FALSE)]
    /\ UNCHANGED <<config, lineup, inning, pc, adv, sim_runner, call>>

DetNext == \E r \in 1..2 : DetLoopTest(r) \/ DetSeason(r) \/ DetNotify(r)

SpecDet == DetInit /\ [][DetNext]_vars

-----------------------------------------------------------------------------
(* Specification SpecSeason: one simulate_season call, half-inning by       *)
(* half-inning                                                              *)

SeasonSeeds == 0..24

SeasonInit ==
    /\ config \in BatchConfigs
    /\ lineup \in {"default", "contact"}
    /\ inning = NewInning(0)
    /\ pc = "idle"
    /\ adv = AdvIdle
    /\ runs2 = Runs2Idle
    /\ sim_runner = RunnerIdle
    /\ \E seed \in SeasonSeeds, n_games \in 1..SeasonGames :
          call = [fn |-> "simulate_season", n_games |-> n_games,
                  remaining |-> n_games * InningsPerGame,
                  acc |-> NewSeason(SeededRng(seed))]

\* the next half-inning of the season
SeasonStep ==
    /\ call.fn = "simulate_season"
    /\ call.remaining > 0
    /\ ~call.acc.raised
    /\ call' = [call EXCEPT
                  !.acc = SeasonHalfInning(config, LineupOf(lineup), @, call.remaining),
                  !.remaining = @ - 1]
    /\ UNCHANGED <<config, lineup, inning, pc, adv, runs2, sim_runner>>

SeasonNext == SeasonStep

SpecSeason == SeasonInit /\ [][SeasonNext]_vars

-----------------------------------------------------------------------------
(* src/gui/utils/simulation_runner.py: SimulationRunner                     *)

\* a config_overrides dict with no key that config has
NoOverrides == [k \in {} |-> FALSE]

Overrides ==
    {NoOverrides,
     [k \in {"ENABLE_STOLEN_BASES", "NOT_A_SETTING"} |-> FALSE],
     [k \in {"ENABLE_SACRIFICE_FLIES", "ENABLE_ERRORS_WILD_PITCHES"} |-> TRUE]}

\* lines 55-58: original_values[key] = getattr(config, key) for the keys that
\* config has
OriginalValues(cfg, config_overrides) ==
    [k \in DOMAIN config_overrides \cap DOMAIN cfg |-> cfg[k]]

\* lines 56-57: the overrides whose key config has
Applicable(cfg, config_overrides) ==
    [k \in DOMAIN config_overrides \cap DOMAIN cfg |-> config_overrides[k]]

\* lines 59 and 90-91: setattr(config, key, value) for every key of values
SetAttrs(cfg, values) ==
    [k \in DOMAIN cfg |-> IF k \in DOMAIN values THEN values[k] ELSE cfg[k]]

NoRun == [pc |-> "none"]

\* what complete_callback is called with: the results dict (line 81), None
\* (line 86) or {'error': str(e)} (line 96)
ResultsPayload == [kind |-> "results"]

NonePayload == [kind |-> "None"]

ErrorPayload(e) == [kind |-> "error", error |-> e]

\* the runner after __init__ (lines 15-19): no thread, the event clear;
\* seasons_started and stop_point are history: the seasons the worker has
\* begun, and where the worker was when stop() set the event
NewRunner ==
    [phase |-> "idle", stop_flag |-> FALSE, config_overrides |-> NoOverrides,
     n_iterations |-> 0, n_games |-> 0, random_seed |-> 0,
     original_values |-> NoOverrides, run |-> NoRun, in_season |-> FALSE,
     completed |-> <<>>, seasons_started |-> 0, stop_point |-> "none"]

\* where the worker thread is
WorkerPosition(sr) ==
    IF sr.phase # "running" THEN sr.phase
    ELSE IF sr.in_season THEN "in_season"
    ELSE sr.run.pc

\* run_simulations has been called and has not yet returned or raised
InProgress(position) == position \in {"loop", "season", "in_season", "progress"}

-----------------------------------------------------------------------------
(* Specification SpecBatch: one SimulationRunner, one run_in_thread, stop() *)
(* at any moment                                                            *)

IterCounts == {1, 2, PROGRESS_EVERY + 1, MaxIter - 1, MaxIter}

BatchSeeds == {42, 7}

BatchInit ==
    /\ config \in BatchConfigs
    /\ lineup \in {"default", "contact"}
    /\ inning = NewInning(0)
    /\ pc = "idle"
    /\ adv = AdvIdle
    /\ runs2 = Runs2Idle
    /\ sim_runner = NewRunner
    /\ call = CallIdle

\* run_in_thread, lines 37-43: the event cleared, the worker thread started
RunInThread ==
    /\ sim_runner.phase = "idle"
    /\ \E ov \in Overrides, n \in IterCounts, g \in 1..MaxGames, seed \in BatchSeeds :
          sim_runner' = [sim_runner EXCEPT
                           !.phase = "started",
                           !.stop_flag = FALSE,
                           !.stop_point = "none",
                           !.config_overrides = ov,
                           !.n_iterations = n,
                           !.n_games = g,
                           !.random_seed = seed]
    /\ UNCHANGED <<config, lineup, inning, pc, adv, runs2, call>>

\* _run_simulation, lines 54-77: the overrides applied, run_simulations entered
WorkerBegin ==
    /\ sim_runner.phase = "started"
    /\ config' = SetAttrs(config, Applicable(config, sim_runner.config_overrides))
    /\ sim_runner' = [sim_runner EXCEPT
                        !.phase = "running",
                        !.original_values = OriginalValues(config, sim_runner.config_overrides),
                        !.run = RunStart(sim_runner.random_seed, 1,
                                         sim_runner.n_iterations, sim_runner.n_games)]
    /\ UNCHANGED <<lineup, inning, pc, adv, runs2, call>>

\* batch.py line 95
WorkerLoopTest ==
    /\ sim_runner.phase = "running"
    /\ sim_runner.run.pc = "loop"
    /\ sim_runner' = [sim_runner EXCEPT !.run = RunLoopTest(@)]
    /\ UNCHANGED <<config, lineup, inning, pc, adv, runs2, call>>

\* batch.py line 97: simulate_season is entered
WorkerSeasonBegin ==
    /\ sim_runner.phase = "running"
    /\ sim_runner.run.pc = "season"
    /\ ~sim_runner.in_season
    /\ sim_runner' = [sim_runner EXCEPT !.in_season = TRUE, !.seasons_started = @ + 1]
    /\ UNCHANGED <<config, lineup, inning, pc, adv, runs2, call>>

\* batch.py lines 97-105: simulate_season returns (or raises), totals appended
WorkerSeasonEnd ==
    /\ sim_runner.phase = "running"
    /\ sim_runner.run.pc = "season"
    /\ sim_runner.in_season
    /\ sim_runner' = [sim_runner EXCEPT
                        !.in_season = FALSE,
                        !.run = RunSeason(config, LineupOf(lineup), @)]
    /\ UNCHANGED <<config, lineup, inning, pc, adv, runs2, call>>

\* batch.py lines 112-114 with progress_wrapper (lines 62-66) as the callback
WorkerProgress ==
    /\ sim_runner.phase = "running"
    /\ sim_runner.run.pc = "progress"
    /\ sim_runner' = [sim_runner EXCEPT !.run = RunNotify(@, sim_runner.stop_flag)]
    /\ UNCHANGED <<config, lineup, inning, pc, adv, runs2, call>>

\* lines 80-81 and the finally of 88-91: run_simulations returned its report
WorkerDeliver ==
    /\ sim_runner.phase = "running"
    /\ sim_runner.run.pc = "returned"
    /\ config' = SetAttrs(config, sim_runner.original_values)
    /\ sim_runner' = [sim_runner EXCEPT
                        !.phase = "done",
                        !.completed = IF sim_runner.stop_flag THEN @
                                      ELSE Append(@, ResultsPayload)]
    /\ UNCHANGED <<lineup, inning, pc, adv, runs2, call>>

\* lines 83-86 and the finally: InterruptedError left run_simulations
WorkerCancelled ==
    /\ sim_runner.phase = "running"
    /\ sim_runner.run.pc = "interrupted"
    /\ config' = SetAttrs(config, sim_runner.original_values)
    /\ sim_runner' = [sim_runner EXCEPT
                        !.phase = "done",
                        !.completed = Append(@, NonePayload)]
    /\ UNCHANGED <<lineup, inning, pc, adv, runs2, call>>

\* the finally and lines 93-96: another exception left run_simulations
WorkerFailed ==
    /\ sim_runner.phase = "running"
    /\ sim_runner.run.pc = "raised"
    /\ config' = SetAttrs(config, sim_runner.original_values)
    /\ sim_runner' = [sim_runner EXCEPT
                        !.phase = "done",
                        !.completed = Append(@, ErrorPayload(sim_runner.run.error))]
    /\ UNCHANGED <<lineup, inning, pc, adv, runs2, call>>

\* stop, lines 98-100
Stop ==
    /\ ~sim_runner.stop_flag
    /\ sim_runner' = [sim_runner EXCEPT
                        !.stop_flag = TRUE,
                        !.stop_point = WorkerPosition(sim_runner)]
    /\ UNCHANGED <<config, lineup, inning, pc, adv, runs2, call>>

BatchNext ==
    \/ RunInThread
    \/ WorkerBegin
    \/ WorkerLoopTest
    \/ WorkerSeasonBegin
    \/ WorkerSeasonEnd
    \/ WorkerProgress
    \/ WorkerDeliver
    \/ WorkerCancelled
    \/ WorkerFailed
    \/ Stop

SpecBatch == BatchInit /\ [][BatchNext]_vars

-----------------------------------------------------------------------------
(* Specification SpecOverlap: the dashboard's one SimulationRunner, started *)
(* from each of the two compare-mode panels (main_dashboard.py lines        *)
(* 141-180), so that two worker threads may run _run_simulation at once     *)

\* batch.py lines 83-114 and 116-223: run_simulations from a position of its
\* loop to its end: the report returned, or an exception raised
RECURSIVE RunSimulations(_, _, _, _)
RunSimulations(cfg, lu, run, stop) ==
    CASE run.pc = "loop" -> RunSimulations(cfg, lu, RunLoopTest(run), stop)
      [] run.pc = "season" -> RunSimulations(cfg, lu, RunSeason(cfg, lu, run), stop)
      [] run.pc = "progress" -> RunSimulations(cfg, lu, RunNotify(run, stop), stop)
      [] OTHER -> run

\* simulation_runner.py lines 80-81, 83-86 and 93-96: what complete_callback
\* is called with, if it is called, when run_simulations has ended
Delivered(run, stop) ==
    CASE run.pc = "returned" -> IF stop THEN <<>> ELSE <<ResultsPayload>>
      [] run.pc = "interrupted" -> <<NonePayload>>
      [] run.pc = "raised" -> <<ErrorPayload(run.error)>>

\* the two simulation panels of compare mode
Panels == {1, 2}

\* a worker thread that run_in_thread has not yet created
NoThread ==
    [phase |-> "idle", lineup |-> "default", config_overrides |-> NoOverrides,
     random_seed |-> 0, original_values |-> NoOverrides, completed |-> <<>>]

\* started_with is history: the config attributes when run_in_thread was
\* first called
OverlapInit ==
    /\ config \in BatchConfigs
    /\ lineup = "default"
    /\ inning = NewInning(0)
    /\ pc = "idle"
    /\ adv = AdvIdle
    /\ runs2 = Runs2Idle
    /\ sim_runner = [phase |-> "overlap", stop_flag |-> FALSE,
                     threads |-> [p \in Panels |-> NoThread],
                     started_with |-> config]
    /\ call = CallIdle

\* MainDashboard._run_simulation for one panel, lines 141-180, and
\* run_in_thread, lines 37-43: the event cleared, a worker thread started
PanelRun(p) ==
    /\ sim_runner.threads[p].phase = "idle"
    /\ \E lu \in {"default", "contact"}, ov \in Overrides, seed \in BatchSeeds :
          sim_runner' = [sim_runner EXCEPT
                           !.stop_flag = FALSE,
                           !.threads[p] = [NoThread EXCEPT
                                             !.phase = "started",
                                             !.lineup = lu,
                                             !.config_overrides = ov,
                                             !.random_seed = seed]]
    /\ UNCHANGED <<config, lineup, inning, pc, adv, runs2, call>>

\* _run_simulation, lines 54-59: the attributes saved and overridden
ThreadBegin(p) ==
    /\ sim_runner.threads[p].phase = "started"
    /\ config' = SetAttrs(config,
                          Applicable(config, sim_runner.threads[p].config_overrides))
    /\ sim_runner' = [sim_runner EXCEPT
                        !.threads[p].phase = "running",
                        !.threads[p].original_values =
                            OriginalValues(config, sim_runner.threads[p].config_overrides)]
    /\ UNCHANGED <<lineup, inning, pc, adv, runs2, call>>

\* the payload of a run of one season of MaxGames games whose thread ends now
ThreadPayload(th, stop) ==
    Delivered(RunSimulations(config, LineupOf(th.lineup),
                             RunStart(th.random_seed, 1, 1, MaxGames), stop),
              stop)

\* _run_simulation, lines 68-96: run_simulations runs to its end, the
\* callback is called, and the finally block restores the saved attributes
ThreadEnd(p) ==
    /\ sim_runner.threads[p].phase = "running"
    /\ config' = SetAttrs(config, sim_runner.threads[p].original_values)
    /\ sim_runner' = [sim_runner EXCEPT
                        !.threads[p].phase = "done",
                        !.threads[p].completed =
                            ThreadPayload(sim_runner.threads[p], sim_runner.stop_flag)]
    /\ UNCHANGED <<lineup, inning, pc, adv, runs2, call>>

\* stop, lines 98-100, on the runner both panels share
OverlapStop ==
    /\ ~sim_runner.stop_flag
    /\ \E p \in Panels : sim_runner.threads[p].phase \in {"started", "running"}
    /\ sim_runner' = [sim_runner EXCEPT !.stop_flag = TRUE]
    /\ UNCHANGED <<config, lineup, inning, pc, adv, runs2, call>>

OverlapNext ==
    \/ \E p \in Panels : PanelRun(p)
    \/ \E p \in Panels : ThreadBegin(p)
    \/ \E p \in Panels : ThreadEnd(p)
    \/ OverlapStop

SpecOverlap == OverlapInit /\ [][OverlapNext]_vars

-----------------------------------------------------------------------------
(* src/models/probability.py: the calibration of a slash line.  The floats  *)
(* of the calibration are fixed-point numbers in units of 1/Scale (inputs   *)
(* and hit_dist) and of 1/Fine (pa_probs, products of two of those), or NaN *)

Fine == Scale * Scale

\* float('nan'): every comparison with it is false, every sum, difference
\* and product is NaN
NaN == 0 - 2000000000

FAdd(a, b) == IF a = NaN \/ b = NaN THEN NaN ELSE a + b

FSub(a, b) == IF a = NaN \/ b = NaN THEN NaN ELSE a - b

FMul(a, b) == IF a = NaN \/ b = NaN THEN NaN ELSE a * b

FLt(a, b) == a # NaN /\ b # NaN /\ a < b

FGt(a, b) == a # NaN /\ b # NaN /\ a > b

FAbs(a) == IF a = NaN THEN NaN ELSE IF a < 0 THEN 0 - a ELSE a

\* Python's min(a, b): b if b < a else a
FMin(a, b) == IF FLt(b, a) THEN b ELSE a

HitTypes == <<"1B", "2B", "3B", "HR">>

PaOutcomes == {"OUT", "STRIKEOUT", "WALK", "SINGLE", "DOUBLE", "TRIPLE", "HR"}

ISO_low == 1000
ISO_medium == 2000
ISO_power_span == 2000
MIN_HITS_THRESHOLD == 100
PRIOR_WEIGHT == 100

HitDist(p1B, p2B, p3B, pHR) ==
    [k \in {"1B", "2B", "3B", "HR"} |->
        IF k = "1B" THEN p1B ELSE IF k = "2B" THEN p2B
        ELSE IF k = "3B" THEN p3B ELSE pHR]

singles_hitter == HitDist(8000, 1500, 200, 300)

balanced == HitDist(7000, 2000, 200, 800)

power_hitter == HitDist(6000, 2000, 100, 1900)

LEAGUE_AVG_HIT_DISTRIBUTION == HitDist(7500, 1800, 200, 500)

\* profile_a[k] * (1 - weight) + profile_b[k] * weight
Blend(profile_a, profile_b, weight) ==
    [k \in DOMAIN profile_a |->
        (profile_a[k] * (Scale - weight) + profile_b[k] * weight) \div Scale]

\* the hit counts and the iso field of a Player
Counts(singles, doubles, triples, hr, iso) ==
    [singles |-> singles, doubles |-> doubles, triples |-> triples, hr |-> hr,
     iso |-> iso]

\* calculate_hit_distribution(player) with the default league average and
\* threshold
CalculateHitDistribution(player) ==
    IF /\ player.singles # NoData /\ player.doubles # NoData
       /\ player.triples # NoData /\ player.hr # NoData
    THEN LET total_hits == player.singles + player.doubles + player.triples + player.hr
             count == HitDist(player.singles, player.doubles, player.triples, player.hr)
         IN  IF total_hits = 0 THEN LEAGUE_AVG_HIT_DISTRIBUTION
             ELSE IF total_hits < MIN_HITS_THRESHOLD
             THEN [k \in DOMAIN count |->
                     (LEAGUE_AVG_HIT_DISTRIBUTION[k] * PRIOR_WEIGHT
                        + ((count[k] * Scale) \div total_hits) * total_hits)
                     \div (PRIOR_WEIGHT + total_hits)]
             ELSE [k \in DOMAIN count |-> (count[k] * Scale) \div total_hits]
    ELSE IF FLt(player.iso, ISO_low) THEN singles_hitter
    ELSE IF FLt(player.iso, ISO_medium)
    THEN Blend(singles_hitter, balanced,
               ((player.iso - ISO_low) * Scale) \div (ISO_medium - ISO_low))
    ELSE Blend(balanced, power_hitter,
               FMin(Scale, IF player.iso = NaN THEN NaN
                           ELSE ((player.iso - ISO_medium) * Scale) \div ISO_power_span))

RECURSIVE FSum(_, _)
\* sum(probs.values()) over the keys in keys
FSum(probs, keys) ==
    IF keys = {} THEN 0
    ELSE LET k == CHOOSE x \in keys : TRUE
         IN  FAdd(probs[k], FSum(probs, keys \ {k}))

\* variant: the check for negative entries is left out
ValidateProbabilities_SumOnly(probs, one) ==
    ~FGt(FAbs(FSub(FSum(probs, DOMAIN probs), one)), one \div 1000000)

\* validate_probabilities(probs) with the default tolerance, one being the
\* fixed-point 1.0 of probs: TRUE when it returns, FALSE when it raises
ValidateProbabilities(probs, one) ==
    /\ \A k \in DOMAIN probs : ~FLt(probs[k], 0)
    /\ ~FGt(FAbs(FSub(FSum(probs, DOMAIN probs), one)), one \div 1000000)

\* variant: the player's strikeout rate is not used
SplitOuts_IgnoresKPct(p_total_outs, k_pct) ==
    IF FLt(FSub(p_total_outs, DEFAULT_K_PCT), 0) THEN <<p_total_outs, 0>>
    ELSE <<DEFAULT_K_PCT, FSub(p_total_outs, DEFAULT_K_PCT)>>

\* lines 141-154: <<p_strikeout, p_out>>
SplitOuts(p_total_outs, k_pct) ==
    LET p_strikeout == IF k_pct # NoData THEN k_pct ELSE DEFAULT_K_PCT
        p_out == FSub(p_total_outs, p_strikeout)
    IN  IF FLt(p_out, 0) THEN <<p_total_outs, 0>> ELSE <<p_strikeout, p_out>>

\* lines 157-165, in units of 1/Fine
PaProbs(p_out, p_strikeout, p_walk, p_hit, hit_dist) ==
    [k \in PaOutcomes |->
        IF k = "OUT" THEN FMul(p_out, Scale)
        ELSE IF k = "STRIKEOUT" THEN FMul(p_strikeout, Scale)
        ELSE IF k = "WALK" THEN FMul(p_walk, Scale)
        ELSE IF k = "SINGLE" THEN FMul(p_hit, hit_dist["1B"])
        ELSE IF k = "DOUBLE" THEN FMul(p_hit, hit_dist["2B"])
        ELSE IF k = "TRIPLE" THEN FMul(p_hit, hit_dist["3B"])
        ELSE FMul(p_hit, hit_dist["HR"])]

\* the result of decompose_slash_line once pa_probs and hit_dist are built:
\* raised when either validation raises
Validated(pa_probs, hit_dist) ==
    [raised |-> ~(ValidateProbabilities(pa_probs, Fine)
                  /\ ValidateProbabilities(hit_dist, Scale)),
     pa_probs |-> pa_probs, hit_dist |-> hit_dist]

\* lines 136-171 once hit_dist is known
DecomposeWith(ba, obp, hit_dist, k_pct) ==
    Validated(PaProbs(SplitOuts(FSub(Scale, obp), k_pct)[2],
                      SplitOuts(FSub(Scale, obp), k_pct)[1],
                      FSub(obp, ba), ba, hit_dist),
              hit_dist)

\* player=None
NoPlayer == [name |-> "None"]

\* decompose_slash_line(ba, obp, slg, player, k_pct); player = None is the
\* temporary player with no counts and iso = slg - ba
DecomposeSlashLine(ba, obp, slg, player, k_pct) ==
    DecomposeWith(ba, obp,
                  CalculateHitDistribution(
                      IF player = NoPlayer
                      THEN Counts(NoData, NoData, NoData, NoData, FSub(slg, ba))
                      ELSE player),
                  k_pct)

-----------------------------------------------------------------------------
(* src/simulation/batch.py: _calculate_win_probability.  Its floats are     *)
(* binary floating-point numbers m * 2^e, rounded to nearest (ties to even) *)
(* after every operation as IEEE 754 binary64 rounds them; the mantissa has *)
(* MantissaBits bits where binary64 has 53.                                 *)

RECURSIVE Pow2(_)
Pow2(k) == IF k = 0 THEN 1 ELSE 2 * Pow2(k - 1)

FltZero == [m |-> 0, e |-> 0]

FltNeg(a) == [a EXCEPT !.m = 0 - @]

\* q + r / den, 0 <= r < den, rounded to an integer mantissa, ties to even
FltTiesToEven(q, r, den, e) ==
    IF 2 * r > den \/ (2 * r = den /\ q % 2 = 1)
    THEN IF q + 1 = Pow2(MantissaBits)
         THEN [m |-> Pow2(MantissaBits - 1), e |-> e + 1]
         ELSE [m |-> q + 1, e |-> e]
    ELSE [m |-> q, e |-> e]

\* the float nearest to (num / den) * 2^e, for num > 0 and den > 0
RECURSIVE FltNorm(_, _, _)
FltNorm(num, den, e) ==
    IF num >= den * Pow2(MantissaBits) THEN FltNorm(num, 2 * den, e + 1)
    ELSE IF num < den * Pow2(MantissaBits - 1) THEN FltNorm(2 * num, den, e - 1)
    ELSE FltTiesToEven(num \div den, num % den, den, e)

\* the float nearest to (num / den) * 2^e, for den > 0
FltRound(num, den, e) ==
    IF num = 0 THEN FltZero
    ELSE IF num < 0 THEN FltNeg(FltNorm(0 - num, den, e))
    ELSE FltNorm(num, den, e)

FltInt(k) == FltRound(k, 1, 0)

FltMul(a, b) == FltRound(a.m * b.m, 1, a.e + b.e)

FltDiv(a, b) ==
    IF b.m < 0 THEN FltRound(0 - a.m, 0 - b.m, a.e - b.e)
    ELSE FltRound(a.m, b.m, a.e - b.e)

\* an operand more than MantissaBits + 1 binary places below the other is
\* less than half a unit in its last place: the sum rounds to the other
FltAdd(a, b) ==
    IF a.m = 0 THEN b
    ELSE IF b.m = 0 THEN a
    ELSE IF a.e - b.e > MantissaBits + 1 THEN a
    ELSE IF b.e - a.e > MantissaBits + 1 THEN b
    ELSE IF a.e >= b.e THEN FltRound(a.m * Pow2(a.e - b.e) + b.m, 1, b.e)
    ELSE FltRound(a.m + b.m * Pow2(b.e - a.e), 1, a.e)

FltSub(a, b) == FltAdd(a, FltNeg(b))

\* a < b: rounding a difference never changes its sign
FltLess(a, b) == FltSub(a, b).m < 0

\* the radicand m * 2^e as M * 4^k with M of 2 * MantissaBits - 1 or
\* 2 * MantissaBits bits: its integer square root has MantissaBits bits
RECURSIVE FltRadicand(_, _)
FltRadicand(M, e) ==
    IF M >= Pow2(2 * (MantissaBits - 1)) THEN <<M, e>>
    ELSE FltRadicand(4 * M, e - 2)

ISqrt(M) ==
    CHOOSE s \in Pow2(MantissaBits - 1)..Pow2(MantissaBits) :
        s * s <= M /\ M < (s + 1) * (s + 1)

\* sqrt(M) lies above s + 1/2 exactly when M > s * s + s
FltSqrtRound(M, s, e) ==
    FltRound(IF M > s * s + s THEN s + 1 ELSE s, 1, e \div 2)

FltSqrtOf(r) == FltSqrtRound(r[1], ISqrt(r[1]), r[2])

\* np.sqrt of a float that is not negative
FltSqrt(a) ==
    IF a.m = 0 THEN FltZero
    ELSE IF a.e % 2 = 0 THEN FltSqrtOf(FltRadicand(a.m, a.e))
    ELSE FltSqrtOf(FltRadicand(2 * a.m, a.e - 1))

\* z = norm.ppf(0.975), to six digits
ZScore == FltRound(195996, 100000, 0)

\* league_avg_runs = 4.5 * n_games
LeagueAvgRuns(n_games) == FltMul(FltRound(45, 10, 0), FltInt(n_games))

\* variant: a season exactly at the league average does not count
WinsAboveAvg_Strict(season_runs_arr, league_avg_runs) ==
    Cardinality({i \in DOMAIN season_runs_arr :
                     FltLess(league_avg_runs, FltInt(season_runs_arr[i]))})

\* wins_above_avg = np.sum(season_runs_arr >= league_avg_runs)
WinsAboveAvg(season_runs_arr, league_avg_runs) ==
    Cardinality({i \in DOMAIN season_runs_arr :
                     ~FltLess(FltInt(season_runs_arr[i]), league_avg_runs)})

\* denominator = 1 + z**2 / n
WilsonDenominator(z2, n) == FltAdd(FltInt(1), FltDiv(z2, FltInt(n)))

\* center = (p_hat + z**2 / (2 * n)) / denominator
WilsonCenter(p_hat, z2, n, denominator) ==
    FltDiv(FltAdd(p_hat, FltDiv(z2, FltInt(2 * n))), denominator)

\* spread = z * np.sqrt((p_hat * (1 - p_hat) + z**2 / (4 * n)) / n) / denominator
WilsonSpread(p_hat, z2, n, denominator) ==
    FltDiv(FltMul(ZScore,
                  FltSqrt(FltDiv(FltAdd(FltMul(p_hat, FltSub(FltInt(1), p_hat)),
                                        FltDiv(z2, FltInt(4 * n))),
                                 FltInt(n)))),
           denominator)

\* max(0.0, x)
FltMax0(x) == IF FltLess(FltZero, x) THEN x ELSE FltZero

\* min(1.0, x)
FltMin1(x) == IF FltLess(x, FltInt(1)) THEN x ELSE FltInt(1)

WilsonInterval(p_hat, center, spread) ==
    [raised |-> FALSE,
     mean |-> p_hat,
     ci_lower |-> FltMax0(FltSub(center, spread)),
     ci_upper |-> FltMin1(FltAdd(center, spread))]

WilsonOf(p_hat, z2, n, denominator) ==
    WilsonInterval(p_hat,
                   WilsonCenter(p_hat, z2, n, denominator),
                   WilsonSpread(p_hat, z2, n, denominator))

\* p_hat = wins_above_avg / n_iterations and its Wilson score interval
CalculateWinProbability(season_runs_arr, n_games, n_iterations) ==
    WilsonOf(FltDiv(FltInt(WinsAboveAvg(season_runs_arr, LeagueAvgRuns(n_games))),
                    FltInt(n_iterations)),
             FltMul(ZScore, ZScore),
             n_iterations,
             WilsonDenominator(FltMul(ZScore, ZScore), n_iterations))

-----------------------------------------------------------------------------
(* Specification SpecCall: one call of a library function on any arguments *)

BaValues == {NaN, 0, 2500, 2800, 3500}

ObpValues == {NaN, 2800, 3300, 3500, Scale + 2000}

SlgValues == {NaN, 3600, 4500, 5200}

KPctValues == {NoData, 1500, 2200, 9000}

PlayerValues ==
    {NoPlayer,
     Counts(NoData, NoData, NoData, NoData, 1500),
     Counts(120, 50, 5, 25, 1700),
     Counts(15, 6, 1, 3, 1700),
     Counts(0, 0, 0, 0, 0),
     Counts(0 - 20, 100, 10, 110, 1700)}

\* the switches as config.py sets them
DefaultConfig == [k \in DOMAIN CHOOSE c \in ConfigFlags : TRUE |-> TRUE]

CallInit ==
    /\ config = DefaultConfig
    /\ lineup = "default"
    /\ inning = NewInning(0)
    /\ pc = "idle"
    /\ adv = AdvIdle
    /\ runs2 = Runs2Idle
    /\ sim_runner = RunnerIdle
    /\ call = CallIdle

CallDecomposeSlashLine ==
    /\ call.fn = "idle"
    /\ \E ba \in BaValues, obp \in ObpValues, slg \in SlgValues,
          player \in PlayerValues, k_pct \in KPctValues :
          call' = [fn |-> "decompose_slash_line", ba |-> ba, obp |-> obp,
                   slg |-> slg, player |-> player, k_pct |-> k_pct,
                   result |-> DecomposeSlashLine(ba, obp, slg, player, k_pct)]
    /\ UNCHANGED <<config, lineup, inning, pc, adv, runs2, sim_runner>>

\* season totals around the league average of a 1-game and a 2-game season
SeasonRunValues == {4, 5, 9}

SeasonRunArrays == UNION {[1..k -> SeasonRunValues] : k \in 1..MaxSeasons}

CallCalculateWinProbability ==
    /\ call.fn = "idle"
    /\ \E season_runs_arr \in SeasonRunArrays, n_games \in 1..2 :
          call' = [fn |-> "_calculate_win_probability",
                   season_runs_arr |-> season_runs_arr, n_games |-> n_games,
                   n_iterations |-> Len(season_runs_arr),
                   result |-> CalculateWinProbability(season_runs_arr, n_games,
                                                      Len(season_runs_arr))]
    /\ UNCHANGED <<config, lineup, inning, pc, adv, runs2, sim_runner>>

\* variates on both sides of every attempt rate and success rate of the
\* lineup's first four players
StealVariates == {0, 7000, 9900}

StealTapes == StealVariates \X StealVariates \X StealVariates \X StealVariates

\* what check_steal_opportunities returned, and how many variates it drew
StealCallResult(r, tape) ==
    [raised |-> FALSE, bases |-> r.bases, additional_outs |-> r.additional_outs,
     draws |-> Len(tape) - Len(r.rng.tape)]

CallCheckStealOpportunities ==
    /\ call.fn = "idle"
    /\ \E bases \in AdvBases, outs \in 0..2, tape \in StealTapes :
          call' = [fn |-> "check_steal_opportunities", bases |-> bases,
                   outs |-> outs, tape |-> tape,
                   result |-> StealCallResult(
                       CheckStealOpportunities(config, LineupOf(lineup), bases,
                                               outs, TapeRng(tape)),
                       tape)]
    /\ UNCHANGED <<config, lineup, inning, pc, adv, runs2, sim_runner>>

\* pa_probs with all outs in play as strikeouts
AllStrikeoutPaProbs ==
    [OUT |-> 0, STRIKEOUT |-> 6500, WALK |-> 700, SINGLE |-> 2044,
     DOUBLE |-> 518, TRIPLE |-> 56, HR |-> 182]

\* pa_probs whose sum falls short of one by a rounding error
RoundedDownPaProbs ==
    [OUT |-> 6500, STRIKEOUT |-> 0, WALK |-> 700, SINGLE |-> 2044,
     DOUBLE |-> 518, TRIPLE |-> 0, HR |-> 237]

PaProbsValues ==
    {DefaultPaProbs, ContactPaProbs, AllStrikeoutPaProbs, RoundedDownPaProbs}

\* variates of rng.random(), in [0, 1): the least, the greatest, and both
\* sides of the cumulative sums of the distributions
PaVariates ==
    {0, 1, 4299, 4300, 6499, 6500, 7199, 7200, 9243, 9244, 9761, 9762,
     9817, 9818, 9998, 9999}

CallGenerateOutcome ==
    /\ call.fn = "idle"
    /\ \E probs \in PaProbsValues, rand \in PaVariates :
          call' = [fn |-> "generate_outcome", pa_probs |-> probs, rand |-> rand,
                   result |-> [raised |-> FALSE,
                               outcome |-> GenerateOutcome(Player(1, NoData, NoData, probs),
                                                           TapeRng(<<rand>>))[1]]]
    /\ UNCHANGED <<config, lineup, inning, pc, adv, runs2, sim_runner>>

\* config.py lines 88-89
MIN_HITS_FOR_ACTUAL_DIST == 100
BAYESIAN_PRIOR_WEIGHT == 100

\* the settings as config.py has them, and as the setup panel's spin boxes
\* may override them (setup_panel.py lines 729-730)
MinHitsSettings == {MIN_HITS_FOR_ACTUAL_DIST, 10, 250}

PriorWeightSettings == {BAYESIAN_PRIOR_WEIGHT, 50}

\* players with hit counts: the ones of PlayerValues, and one whose total is
\* the default threshold
HitCountValues ==
    {v \in PlayerValues : v # NoPlayer /\ v.singles # NoData}
        \cup {Counts(70, 20, 2, 8, 1700)}

\* calculate_hit_distribution(player) while config holds the two settings
CallCalculateHitDistribution ==
    /\ call.fn = "idle"
    /\ \E player \in HitCountValues, min_hits \in MinHitsSettings,
          prior_weight \in PriorWeightSettings :
          call' = [fn |-> "calculate_hit_distribution", player |-> player,
                   config_MIN_HITS_FOR_ACTUAL_DIST |-> min_hits,
                   config_BAYESIAN_PRIOR_WEIGHT |-> prior_weight,
                   result |-> [raised |-> FALSE,
                               hit_dist |-> CalculateHitDistribution(player)]]
    /\ UNCHANGED <<config, lineup, inning, pc, adv, runs2, sim_runner>>

CallNext ==
    \/ CallDecomposeSlashLine
    \/ CallCalculateWinProbability
    \/ CallCheckStealOpportunities
    \/ CallGenerateOutcome
    \/ CallCalculateHitDistribution

SpecCall == CallInit /\ [][CallNext]_vars

-----------------------------------------------------------------------------
(* The bases mappings as objects.  A dict is an object of the store; env    *)
(* maps the names of a function's frame to objects.  The four modifiers are *)
(* translated once more, statement by statement, with every read and write  *)
(* of a mapping going through the name the source uses.                     *)

\* a frame with one name bound to the first object of the store
NewHeap(name, contents) == [env |-> (name :> 1), store |-> <<contents>>]

\* name = <a new dict>
Alloc(h, name, contents) ==
    [env |-> (name :> (Len(h.store) + 1)) @@ h.env,
     store |-> Append(h.store, contents)]

\* variant: name = src, the same object under a second name
DictCopy_SameObject(h, name, src) ==
    [env |-> (name :> h.env[src]) @@ h.env, store |-> h.store]

\* name = src.copy()
DictCopy(h, name, src) == Alloc(h, name, h.store[h.env[src]])

\* name[key]
GetItem(h, name, key) == h.store[h.env[name]][key]

\* name[key] = value
SetItem(h, name, key, value) ==
    [h EXCEPT !.store[h.env[name]][key] = value]

\* the frame of a function called with the object of arg as its parameter
CallFrame(h, param, arg) == [env |-> (param :> h.env[arg]), store |-> h.store]

\* "return name": the store, the object returned and the stream
HeapResult(h, name, rng) == [heap |-> h, ret |-> h.env[name], rng |-> rng]

\* baserunning.py lines 70-88
WalkOnHeap(h, batter) ==
    LET h1 == IF GetItem(h, "bases_before", "second") # None
                 /\ GetItem(h, "bases_before", "first") # None
              THEN SetItem(h, "bases_after", "third",
                           GetItem(h, "bases_before", "second"))
              ELSE IF GetItem(h, "bases_before", "third") # None
              THEN SetItem(h, "bases_after", "third",
                           GetItem(h, "bases_before", "third"))
              ELSE h
        h2 == IF GetItem(h1, "bases_before", "first") # None
              THEN SetItem(h1, "bases_after", "second",
                           GetItem(h1, "bases_before", "first"))
              ELSE h1
    IN  SetItem(h2, "bases_after", "first", batter)

\* lines 103-106: the runner from first goes for third
SingleAggressiveOnHeap(h) ==
    IF GetItem(h, "bases_after", "third") = None
    THEN SetItem(h, "bases_after", "third", GetItem(h, "bases_before", "first"))
    ELSE SetItem(h, "bases_after", "second", GetItem(h, "bases_before", "first"))

\* lines 90-111
SingleOnHeap(use_probabilistic, h, batter, rng) ==
    LET h1 == SetItem(h, "bases_after", "third",
                      GetItem(h, "bases_before", "second"))
        runner == GetItem(h1, "bases_before", "first") # None
        d == IF runner /\ use_probabilistic THEN Random(rng) ELSE <<0, rng>>
        h2 == IF ~runner THEN h1
              ELSE IF use_probabilistic /\ d[1] < single_1st_to_3rd
              THEN SingleAggressiveOnHeap(h1)
              ELSE SetItem(h1, "bases_after", "second",
                           GetItem(h1, "bases_before", "first"))
    IN  HeapResult(SetItem(h2, "bases_after", "first", batter), "bases_after", d[2])

\* lines 129-138
DoubleFirstOnHeap(use_probabilistic, h, batter, rng) ==
    LET runner == GetItem(h, "bases_before", "first") # None
        d == IF runner /\ use_probabilistic THEN Random(rng) ELSE <<0, rng>>
        h1 == IF ~runner THEN h
              ELSE IF use_probabilistic /\ d[1] < double_1st_scores THEN h
              ELSE SetItem(h, "bases_after", "third",
                           GetItem(h, "bases_before", "first"))
    IN  HeapResult(SetItem(h1, "bases_after", "second", batter), "bases_after", d[2])

\* lines 113-138
DoubleOnHeap(use_probabilistic, h, batter, rng) ==
    IF GetItem(h, "bases_before", "second") # None /\ use_probabilistic
    THEN LET d == Random(rng)
         IN  IF d[1] < double_2nd_scores
             THEN DoubleFirstOnHeap(use_probabilistic, h, batter, d[2])
             ELSE DoubleFirstOnHeap(use_probabilistic,
                                    SetItem(h, "bases_after", "third",
                                            GetItem(h, "bases_before", "second")),
                                    batter, d[2])
    ELSE DoubleFirstOnHeap(use_probabilistic, h, batter, rng)

\* advance_runners, lines 58-166, on a frame that binds bases_before; raised
\* is the ValueError of line 164
AdvanceRunnersOnHeap(cfg, hit_type, h, batter, rng) ==
    LET use_probabilistic == cfg.ENABLE_PROBABILISTIC_BASERUNNING
        h0 == Alloc(h, "bases_after", CreateEmptyBases)
    IN  CASE hit_type = "OUT" ->
                 [raised |-> FALSE] @@
                 HeapResult(DictCopy(h0, "bases_after", "bases_before"),
                            "bases_after", rng)
          [] hit_type = "WALK" ->
                 [raised |-> FALSE] @@
                 HeapResult(WalkOnHeap(h0, batter), "bases_after", rng)
          [] hit_type = "SINGLE" ->
                 [raised |-> FALSE] @@ SingleOnHeap(use_probabilistic, h0, batter, rng)
          [] hit_type = "DOUBLE" ->
                 [raised |-> FALSE] @@ DoubleOnHeap(use_probabilistic, h0, batter, rng)
          [] hit_type = "TRIPLE" ->
                 [raised |-> FALSE] @@
                 HeapResult(SetItem(h0, "bases_after", "third", batter),
                            "bases_after", rng)
          [] hit_type = "HR" ->
                 [raised |-> FALSE] @@ HeapResult(h0, "bases_after", rng)
          [] OTHER -> [raised |-> TRUE] @@ HeapResult(h0, "bases_after", rng)

\* stolen_bases.py lines 114-131, on the copy
StealWritesOnHeap(h, successful, from_base, runner) ==
    IF successful
    THEN IF from_base = "first"
         THEN SetItem(SetItem(h, "bases_after", "first", None),
                      "bases_after", "second", runner.id)
         ELSE IF from_base = "second"
         THEN SetItem(SetItem(h, "bases_after", "second", None),
                      "bases_after", "third", runner.id)
         ELSE h
    ELSE IF from_base = "first" THEN SetItem(h, "bases_after", "first", None)
    ELSE IF from_base = "second" THEN SetItem(h, "bases_after", "second", None)
    ELSE h

\* attempt_stolen_base, lines 107-131, on a frame that binds bases_before
AttemptStolenBaseOnHeap(runner, from_base, h, rng, team_avg_rate) ==
    LET d == Random(rng)
        successful == d[1] < CalculateSbRate(runner, team_avg_rate)[2]
    IN  [caught |-> ~successful] @@
        HeapResult(StealWritesOnHeap(DictCopy(h, "bases_after", "bases_before"),
                                     successful, from_base, runner),
                   "bases_after", d[2])

\* lines 168-173 and 179-184: bases_after = the mapping attempt_stolen_base
\* returned, and the return
StealAttemptOnHeap(h, a) ==
    [heap |-> [env |-> ("bases_after" :> a.ret) @@ h.env, store |-> a.heap.store],
     ret |-> a.ret, rng |-> a.rng]

\* lines 175-186: the check of first base
StealFirstOnHeap(lu, h, outs, rng) ==
    IF GetItem(h, "bases", "first") # None /\ GetItem(h, "bases", "second") = None
    THEN LET runner == PlayerOf(lu, GetItem(h, "bases", "first"))
             s == ShouldAttemptSteal(runner, "first", outs, rng, TEAM_AVG_RATE)
         IN  IF s[1]
             THEN StealAttemptOnHeap(h,
                      AttemptStolenBaseOnHeap(runner, "first",
                          CallFrame(h, "bases_before", "bases_after"),
                          s[2], TEAM_AVG_RATE))
             ELSE HeapResult(h, "bases_after", s[2])
    ELSE HeapResult(h, "bases_after", rng)

\* lines 164-186: the check of second base, then that of first base
StealSecondOnHeap(lu, h, outs, rng) ==
    IF GetItem(h, "bases", "second") # None /\ GetItem(h, "bases", "third") = None
    THEN LET runner == PlayerOf(lu, GetItem(h, "bases", "second"))
             s == ShouldAttemptSteal(runner, "second", outs, rng, TEAM_AVG_RATE)
         IN  IF s[1]
             THEN StealAttemptOnHeap(h,
                      AttemptStolenBaseOnHeap(runner, "second",
                          CallFrame(h, "bases_before", "bases_after"),
                          s[2], TEAM_AVG_RATE))
             ELSE StealFirstOnHeap(lu, h, outs, s[2])
    ELSE StealFirstOnHeap(lu, h, outs, rng)

\* check_steal_opportunities, lines 155-186, on a frame that binds bases
CheckStealOpportunitiesOnHeap(cfg, lu, h, outs, rng) ==
    IF ~cfg.ENABLE_STOLEN_BASES THEN HeapResult(h, "bases", rng)
    ELSE StealSecondOnHeap(lu, DictCopy(h, "bases_after", "bases"), outs, rng)

\* check_sacrifice_fly, sacrifice_fly.py lines 34-56, on a frame that binds
\* bases
CheckSacrificeFlyOnHeap(cfg, h, outs, rng) ==
    IF ~cfg.ENABLE_SACRIFICE_FLIES THEN HeapResult(h, "bases", rng)
    ELSE IF outs >= 2 THEN HeapResult(h, "bases", rng)
    ELSE IF GetItem(h, "bases", "third") = None THEN HeapResult(h, "bases", rng)
    ELSE LET d == Random(rng)
         IN  IF ~(d[1] < FLYOUT_PERCENTAGE) THEN HeapResult(h, "bases", d[2])
             ELSE HeapResult(SetItem(DictCopy(h, "bases_after", "bases"),
                                     "bases_after", "third", None),
                             "bases_after", d[2])

\* errors.py lines 36-47: the copy and the three writes
ErrorWritesOnHeap(h) ==
    LET h1 == DictCopy(h, "bases_after", "bases")
        h2 == SetItem(h1, "bases_after", "third", GetItem(h1, "bases", "second"))
        h3 == SetItem(h2, "bases_after", "second", GetItem(h2, "bases", "first"))
    IN  SetItem(h3, "bases_after", "first", None)

\* check_error_advances_runner, errors.py lines 27-49, on a frame that binds
\* bases
CheckErrorAdvancesRunnerOnHeap(cfg, h, rng) ==
    IF ~cfg.ENABLE_ERRORS_WILD_PITCHES THEN HeapResult(h, "bases", rng)
    ELSE LET d == Random(rng)
         IN  IF d[1] > ERROR_RATE_PER_PA THEN HeapResult(h, "bases", d[2])
             ELSE HeapResult(ErrorWritesOnHeap(h), "bases_after", d[2])

-----------------------------------------------------------------------------
(* Specification SpecObjects: one call of a modifier on the caller's bases  *)
(* mapping, the first object of the store                                   *)

ObjectsInit ==
    /\ config \in BatchConfigs
    /\ lineup = "default"
    /\ inning = NewInning(0)
    /\ pc = "idle"
    /\ adv = AdvIdle
    /\ runs2 = Runs2Idle
    /\ sim_runner = RunnerIdle
    /\ call = CallIdle

ObjectTapes == StealVariates \X StealVariates \X StealVariates

\* what the caller can observe after the call: its own mapping, the mapping
\* it received, whether the two are one object; expected is the mapping the
\* function computes from its argument's contents
Observed(fn, bases, r, raised, expected) ==
    [fn |-> fn, bases |-> bases, raised |-> raised,
     caller_bases |-> r.heap.store[1],
     returned |-> r.heap.store[r.ret],
     same_object |-> r.ret = 1,
     objects |-> Len(r.heap.store),
     expected |-> expected]

ObjAdvanceRunners ==
    /\ call.fn = "idle"
    /\ \E hit_type \in {Outcomes[i] : i \in 1..Len(Outcomes)},
          bases \in AdvBases, batter \in AdvPlayers, tape \in ObjectTapes :
          /\ batter \notin {bases.first, bases.second, bases.third}
          /\ call' = [hit_type |-> hit_type] @@
                     Observed("advance_runners", bases,
                         AdvanceRunnersOnHeap(config, hit_type,
                             NewHeap("bases_before", bases), batter,
                             TapeRng(tape)),
                         AdvanceRunners(config, hit_type, bases, batter,
                                        TapeRng(tape)).raised,
                         AdvanceRunners(config, hit_type, bases, batter,
                                        TapeRng(tape)).bases)
    /\ UNCHANGED <<config, lineup, inning, pc, adv, runs2, sim_runner>>

ObjCheckStealOpportunities ==
    /\ call.fn = "idle"
    /\ \E bases \in AdvBases, outs \in 0..2, tape \in ObjectTapes :
          call' = Observed("check_steal_opportunities", bases,
                      CheckStealOpportunitiesOnHeap(config, LineupOf(lineup),
                          NewHeap("bases", bases), outs, TapeRng(tape)),
                      FALSE,
                      CheckStealOpportunities(config, LineupOf(lineup), bases,
                                              outs, TapeRng(tape)).bases)
    /\ UNCHANGED <<config, lineup, inning, pc, adv, runs2, sim_runner>>

ObjCheckSacrificeFly ==
    /\ call.fn = "idle"
    /\ \E bases \in AdvBases, outs \in 0..2, tape \in ObjectTapes :
          call' = Observed("check_sacrifice_fly", bases,
                      CheckSacrificeFlyOnHeap(config, NewHeap("bases", bases),
                                              outs, TapeRng(tape)),
                      FALSE,
                      CheckSacrificeFly(config, bases, outs, TapeRng(tape)).bases)
    /\ UNCHANGED <<config, lineup, inning, pc, adv, runs2, sim_runner>>

ObjCheckErrorAdvancesRunner ==
    /\ call.fn = "idle"
    /\ \E bases \in AdvBases, tape \in ObjectTapes :
          call' = Observed("check_error_advances_runner", bases,
                      CheckErrorAdvancesRunnerOnHeap(config,
                          NewHeap("bases", bases), TapeRng(tape)),
                      FALSE,
                      CheckErrorAdvancesRunner(config, bases, TapeRng(tape)).bases)
    /\ UNCHANGED <<config, lineup, inning, pc, adv, runs2, sim_runner>>

ObjectsNext ==
    \/ ObjAdvanceRunners
    \/ ObjCheckStealOpportunities
    \/ ObjCheckSacrificeFly
    \/ ObjCheckErrorAdvancesRunner

SpecObjects == ObjectsInit /\ [][ObjectsNext]_vars

-----------------------------------------------------------------------------
(* Claims about simulate_half_inning (Spec)                                 *)

Occupied(bases) ==
    {x \in {bases.first, bases.second, bases.third} : x # None}

\* C1: simulate_half_inning returns normally for every outcome sequence the
\* sampler can produce, and when it returns outs is exactly 3.
C1_ReturnsNormallyWithThreeOuts ==
    /\ pc # "raised"
    /\ pc = "returned" => inning.outs = 3

C4_OutsUnlessSacFly ==
    [][pc = "pa" =>
         inning'.outs = inning.outs
             + (IF inning'.outcome = "OUT" /\ ~inning'.is_sf THEN 1 ELSE 0)]_vars

\* C4 amended: outs after a plate appearance = outs before + 1 if the outcome
\* is OUT, sacrifice fly or not, and outs before for every other outcome.
C4_OutsPlusOneOnOut ==
    [][pc = "pa" =>
         inning'.outs = inning.outs
             + (IF inning'.outcome = "OUT" THEN 1 ELSE 0)]_vars

\* C4 witness: the plate appearance just made was an out turned into a
\* sacrifice fly, and the out was recorded
C4_Witness ==
    /\ pc = "steal"
    /\ inning.outcome = "OUT"
    /\ inning.is_sf
    /\ inning.sac_flies = 1
    /\ inning.outs = 1
    /\ inning.runs = 1

-----------------------------------------------------------------------------
(* Claims about advance_runners (SpecAdv)                                   *)

Called == adv.phase = "called" /\ ~adv.raised

\* C5: runs_scored is at most the number of occupied bases before the call,
\* plus 1 on a home run.
C5_RunsBounded ==
    Called =>
        adv.runs_scored <= CountRunnersOnBase(adv.bases_before)
                           + (IF adv.hit_type = "HR" THEN 1 ELSE 0)

\* C5 witness: a probabilistic double with the bases loaded that scores all
\* three runners
C5_Witness ==
    /\ Called
    /\ config.ENABLE_PROBABILISTIC_BASERUNNING
    /\ adv.hit_type = "DOUBLE"
    /\ CountRunnersOnBase(adv.bases_before) = 3
    /\ adv.runs_scored = 3

\* C6: on WALK only forced runners advance: batter to first, runner on first
\* to second, runner on second to third only if first was occupied (else he
\* stays), runner on third scores only with the bases loaded (else he stays).
C6_WalkForcedOnly ==
    (Called /\ adv.hit_type = "WALK") =>
        LET b == adv.bases_before
            loaded == b.first # None /\ b.second # None /\ b.third # None
        IN  /\ adv.bases_after.first = adv.batter
            /\ adv.bases_after.second = IF b.first # None THEN b.first ELSE b.second
            /\ adv.bases_after.third =
                  IF b.first # None /\ b.second # None THEN b.second ELSE b.third
            /\ adv.runs_scored = IF loaded THEN 1 ELSE 0

\* C7: on a home run runs scored = 1 + the runners on base, and the bases are
\* empty afterwards.
C7_HomeRunClearsBases ==
    (Called /\ adv.hit_type = "HR") =>
        /\ adv.runs_scored = 1 + CountRunnersOnBase(adv.bases_before)
        /\ adv.bases_after = CreateEmptyBases

\* C7 witness: a grand slam
C7_Witness ==
    /\ Called
    /\ adv.hit_type = "HR"
    /\ CountRunnersOnBase(adv.bases_before) = 3
    /\ adv.runs_scored = 4
    /\ adv.bases_after = CreateEmptyBases

-----------------------------------------------------------------------------
(* Claims about run_simulations (SpecDet)                                   *)

Terminal(run) == run.pc \in {"returned", "raised"}

Prefix(a, b) == Len(a) <= Len(b) /\ \A k \in 1..Len(a) : a[k] = b[k]

-----------------------------------------------------------------------------
(* Claims about SimulationRunner and the progress callback (SpecBatch)      *)

\* C8: when stop() sets the event while run_simulations is in progress (and
\* the run does not end in another exception), the worker ends having called
\* complete_callback exactly once, with None.
C8_StopYieldsCancelled ==
    (/\ sim_runner.phase = "done"
     /\ InProgress(sim_runner.stop_point)
     /\ sim_runner.run.pc # "raised")
        => sim_runner.completed = <<NonePayload>>

\* C9: the stop flag is acted on only in the progress notification that
\* follows a completed season: InterruptedError arises only there, with every
\* season that was begun finished; a season that was begun runs to its end;
\* a due notification that finds the flag set ends the run, and after it no
\* season is begun.
C9_CancelOnlyBetweenSeasons ==
    [][LET r == sim_runner.run
           r2 == sim_runner'.run
       IN  /\ (r2.pc = "interrupted" /\ r.pc # "interrupted") =>
                  /\ r.pc = "progress"
                  /\ ~sim_runner.in_season
                  /\ sim_runner.stop_flag
                  /\ sim_runner.seasons_started = Len(r.season_runs)
                  /\ r2.season_runs = r.season_runs
           /\ sim_runner.in_season =>
                  \/ sim_runner'.in_season /\ r2 = r
                  \/ r2.pc \in {"progress", "raised"}
           /\ (/\ r.pc = "progress"
               /\ ProgressDue(r.i, r.n_iterations)
               /\ sim_runner.stop_flag) => r2.pc = "interrupted"
           /\ r.pc = "interrupted" =>
                  sim_runner'.seasons_started = sim_runner.seasons_started]_vars

\* C9 witness: stop() came in the middle of a season, the season and those up
\* to the next notification were finished, and the run ended there
C9_Witness ==
    /\ sim_runner.run.pc = "interrupted"
    /\ sim_runner.stop_point = "in_season"
    /\ sim_runner.seasons_started = PROGRESS_EVERY + 1
    /\ Len(sim_runner.run.season_runs) = PROGRESS_EVERY + 1

\* C10: every progress call has total = n and completed = the number of
\* seasons finished; completed increases strictly; the calls made are exactly
\* those after iteration 1, 101, 201, ... and after the last iteration; the
\* last call of a run that returned is (n, n).
C10_ProgressCadence ==
    sim_runner.phase \in {"running", "done"} =>
        LET r == sim_runner.run
            n == r.n_iterations
            completed == [k \in 1..Len(r.calls) |-> r.calls[k][1]]
        IN  /\ \A k \in 1..Len(r.calls) :
                  /\ r.calls[k][2] = n
                  /\ r.calls[k][1] = r.calls[k][3]
            /\ \A k \in 1..(Len(r.calls) - 1) : completed[k] < completed[k + 1]
            /\ {completed[k] : k \in 1..Len(r.calls)} =
                  {c \in 1..r.i : (c - 1) % PROGRESS_EVERY = 0 \/ c = n}
            /\ r.pc = "returned" =>
                  /\ r.calls # <<>>
                  /\ r.calls[Len(r.calls)][1] = n
                  /\ r.calls[Len(r.calls)][2] = n

\* C10 witness: a run that returned after three progress calls, the last one
\* off the cadence of 100
C10_Witness ==
    /\ sim_runner.phase = "done"
    /\ sim_runner.run.pc = "returned"
    /\ Len(sim_runner.run.calls) = 3
    /\ sim_runner.run.calls[3][1] % PROGRESS_EVERY # 1
    /\ sim_runner.completed = <<ResultsPayload>>

-----------------------------------------------------------------------------
(* Claims about the calibration (SpecCall)                                  *)

Returned(fn) == call.fn = fn /\ ~call.result.raised

\* a distribution has no negative entry and sums to one within 1e-6 (of a
\* fixed-point one); a NaN entry is no probability
ValidDistribution(probs, one) ==
    /\ \A k \in DOMAIN probs : probs[k] # NaN /\ probs[k] >= 0
    /\ FSum(probs, DOMAIN probs) - one <= one \div 1000000
    /\ one - FSum(probs, DOMAIN probs) <= one \div 1000000

\* C11: when decompose_slash_line returns, outcome_probs and hit_type_dist
\* each have no negative entry and sum to 1 within 1e-6; otherwise it raises.
C11_ReturnsValidOrRaises ==
    Returned("decompose_slash_line") =>
        /\ ValidDistribution(call.result.pa_probs, Fine)
        /\ ValidDistribution(call.result.hit_dist, Scale)

\* C12: the calibrated distribution is WALK = obp - ba; STRIKEOUT = k if
\* given, else the default rate, reduced to 1 - obp when it exceeds the out
\* mass; OUT = 1 - obp - STRIKEOUT, never negative; each hit outcome = ba
\* times its share of hit_type_dist.  For .280/.350/.450 with no counts and
\* no k the call returns WALK = 0.070 and STRIKEOUT = 0.220.
C12_CalibratedDistribution ==
    /\ Returned("decompose_slash_line") =>
          LET p == call.result.pa_probs
              h == call.result.hit_dist
              k == IF call.k_pct # NoData THEN call.k_pct ELSE DEFAULT_K_PCT
              out_mass == FSub(Scale, call.obp)
              strikeout == IF FGt(k, out_mass) THEN out_mass ELSE k
          IN  /\ p["WALK"] = FMul(FSub(call.obp, call.ba), Scale)
              /\ p["STRIKEOUT"] = FMul(strikeout, Scale)
              /\ p["OUT"] = FMul(FSub(out_mass, strikeout), Scale)
              /\ ~FLt(p["OUT"], 0)
              /\ p["SINGLE"] = FMul(call.ba, h["1B"])
              /\ p["DOUBLE"] = FMul(call.ba, h["2B"])
              /\ p["TRIPLE"] = FMul(call.ba, h["3B"])
              /\ p["HR"] = FMul(call.ba, h["HR"])
    /\ (/\ call.fn = "decompose_slash_line"
        /\ call.ba = 2800 /\ call.obp = 3500 /\ call.slg = 4500
        /\ call.player = NoPlayer /\ call.k_pct = NoData) =>
          /\ ~call.result.raised
          /\ call.result.pa_probs["WALK"] = 700 * Scale
          /\ call.result.pa_probs["STRIKEOUT"] = DEFAULT_K_PCT * Scale
          /\ DEFAULT_K_PCT = 2200

\* C12 witness: a strikeout rate of 0.900 given to a .280/.350 hitter is cut
\* to the out mass 0.650 and no ball-in-play out is left
C12_Witness ==
    /\ Returned("decompose_slash_line")
    /\ call.ba = 2800 /\ call.obp = 3500 /\ call.k_pct = 9000
    /\ call.result.pa_probs["STRIKEOUT"] = 6500 * Scale
    /\ call.result.pa_probs["OUT"] = 0
    /\ call.result.pa_probs["SINGLE"] > 0

-----------------------------------------------------------------------------
(* Claims about configuration and failures of a batch run                   *)

InvalidConfiguration(run) ==
    \/ Len(LineupOf(lineup)) # 9
    \/ run.n_iterations <= 0
    \/ run.n_games <= 0

C14_FailureNamesSeasonAndCause ==
    (sim_runner.phase = "done" /\ sim_runner.run.pc = "raised") =>
        /\ Len(sim_runner.completed) = 1
        /\ sim_runner.completed[1].kind = "error"
        /\ sim_runner.completed[1].error = sim_runner.run.error
        /\ "season_index" \in DOMAIN sim_runner.completed[1]
        /\ sim_runner.completed[1].season_index = sim_runner.run.i

-----------------------------------------------------------------------------
(* Claims about the season (SpecSeason)                                     *)

\* C15: within one season every half-inning after the first starts with the
\* next-batter index the previous half-inning returned, at inning boundaries
\* and game boundaries alike.
C15_BatterIndexCarried ==
    [][(/\ call.fn = "simulate_season"
        /\ call'.acc # call.acc
        /\ call.acc.last_next # NoData)
           => call'.acc.last_start = call.acc.last_next]_vars

\* C15 witness: the first half-inning of the second game started in the
\* middle of the order, where the first game ended
C15_Witness ==
    /\ call.fn = "simulate_season"
    /\ call.n_games = 2
    /\ call.remaining = InningsPerGame - 1
    /\ ~call.acc.raised
    /\ call.acc.last_start \notin {0, NoData}
    /\ call.acc.last_next # call.acc.last_start

-----------------------------------------------------------------------------
(* Claims about the win probability (SpecCall)                              *)

FltLe(a, b) == ~FltLess(b, a)

\* the seasons of the array whose total is at least 4.5 runs a game
Qualifying(arr, n_games) == {i \in DOMAIN arr : 2 * arr[i] >= 9 * n_games}

C17_IntervalBracketsMean ==
    Returned("_calculate_win_probability") =>
        /\ FltLe(FltZero, call.result.ci_lower)
        /\ FltLe(call.result.ci_lower, call.result.mean)
        /\ FltLe(call.result.mean, call.result.ci_upper)
        /\ FltLe(call.result.ci_upper, FltInt(1))

-----------------------------------------------------------------------------
(* Claims about raw_data (SpecDet)                                          *)

\* C18: a successful run of n iterations returns raw_data whose seven vectors
\* have exactly n entries each, entry i being the result of the i-th season
\* simulated.
C18_RawDataKeepsEverySeason ==
    \A k \in DOMAIN runs2 :
        runs2[k].pc = "returned" =>
            /\ Len(runs2[k].simulated) = runs2[k].n_iterations
            /\ \A v \in 1..7 :
                  /\ Len(RawData(runs2[k])[v]) = runs2[k].n_iterations
                  /\ \A i \in 1..runs2[k].n_iterations :
                        RawData(runs2[k])[v][i] = runs2[k].simulated[i][v]

\* C18 witness: a returned run of two seasons that scored differently
C18_Witness ==
    \E k \in DOMAIN runs2 :
        /\ runs2[k].pc = "returned"
        /\ runs2[k].n_iterations = 2
        /\ runs2[k].season_runs[1] # runs2[k].season_runs[2]
        /\ runs2[k].season_lob[1] # runs2[k].season_lob[2]

-----------------------------------------------------------------------------
(* Claims about the outcomes of a plate appearance                          *)

\* C19: a STRIKEOUT is an out: the plate appearance increases outs by exactly
\* 1, scores no run, moves no runner and counts neither a hit nor a walk.
C19_StrikeoutIsAnOut ==
    [][(pc = "pa" /\ inning'.outcome = "STRIKEOUT") =>
          /\ pc' # "raised"
          /\ inning'.outs = inning.outs + 1
          /\ inning'.runs = inning.runs
          /\ inning'.bases = inning.bases
          /\ inning'.hits = inning.hits
          /\ inning'.walks = inning.walks]_vars

\* C20: a call of advance_runners with a non-out outcome conserves players:
\* runners before + 1 = runners after + runs scored, everybody on base
\* afterwards is the batter or a runner from before, and nobody is on two
\* bases.
C20_RunnersConserved ==
    (Called /\ adv.hit_type \in {"WALK", "SINGLE", "DOUBLE", "TRIPLE", "HR"}) =>
        /\ CountRunnersOnBase(adv.bases_before) + 1 =
              CountRunnersOnBase(adv.bases_after) + adv.runs_scored
        /\ Occupied(adv.bases_after) \subseteq
              Occupied(adv.bases_before) \cup {adv.batter}
        /\ Cardinality(Occupied(adv.bases_after)) =
              CountRunnersOnBase(adv.bases_after)

-----------------------------------------------------------------------------
(* Claims about the order of the runners (SpecAdv)                          *)

\* the base (1, 2, 3) a player stands on
BaseOf(bases, x) ==
    IF bases.first = x THEN 1 ELSE IF bases.second = x THEN 2 ELSE 3

\* the runners of before the call who are on no base after it
LeftBases == Occupied(adv.bases_before) \ Occupied(adv.bases_after)

\* the runs of the call that runners scored (a home run also scores the batter)
RunnerRuns == adv.runs_scored - (IF adv.hit_type = "HR" THEN 1 ELSE 0)

\* C21: a runner never passes another: when every runner who left the bases
\* scored, a runner who scored from a lower base leaves no runner who started
\* ahead of him on base; the runners still on base keep their order; and no
\* two of them share a base.
C21_NoRunnerPasses ==
    Called =>
        /\ Cardinality(LeftBases) = RunnerRuns =>
              \A lo \in LeftBases, hi \in Occupied(adv.bases_before) :
                  BaseOf(adv.bases_before, lo) < BaseOf(adv.bases_before, hi)
                      => hi \in LeftBases
        /\ \A lo, hi \in Occupied(adv.bases_before) \cap Occupied(adv.bases_after) :
              BaseOf(adv.bases_before, lo) < BaseOf(adv.bases_before, hi)
                  => BaseOf(adv.bases_after, lo) < BaseOf(adv.bases_after, hi)
        /\ Cardinality(Occupied(adv.bases_after)) =
              CountRunnersOnBase(adv.bases_after)

-----------------------------------------------------------------------------
(* Claims about the two baserunning modes (SpecAdv)                         *)

\* C22: with probabilistic baserunning disabled, SINGLE scores the runner on
\* third, moves second to third and first to second and puts the batter on
\* first; DOUBLE scores the runners on third and second, moves first to third
\* and puts the batter on second; TRIPLE scores every runner and puts the
\* batter on third; OUT leaves the bases unchanged with 0 runs.
C22_DeterministicAdvancement ==
    (Called /\ ~config.ENABLE_PROBABILISTIC_BASERUNNING) =>
        LET b == adv.bases_before
            on(x) == IF x # None THEN 1 ELSE 0
        IN  /\ adv.hit_type = "SINGLE" =>
                  /\ adv.bases_after =
                        [first |-> adv.batter, second |-> b.first, third |-> b.second]
                  /\ adv.runs_scored = on(b.third)
            /\ adv.hit_type = "DOUBLE" =>
                  /\ adv.bases_after =
                        [first |-> None, second |-> adv.batter, third |-> b.first]
                  /\ adv.runs_scored = on(b.third) + on(b.second)
            /\ adv.hit_type = "TRIPLE" =>
                  /\ adv.bases_after =
                        [first |-> None, second |-> None, third |-> adv.batter]
                  /\ adv.runs_scored = on(b.first) + on(b.second) + on(b.third)
            /\ adv.hit_type = "OUT" =>
                  /\ adv.bases_after = b
                  /\ adv.runs_scored = 0

\* C22 witness: an out with the bases loaded, in deterministic mode
C22_Witness ==
    /\ Called
    /\ ~config.ENABLE_PROBABILISTIC_BASERUNNING
    /\ adv.hit_type = "OUT"
    /\ CountRunnersOnBase(adv.bases_before) = 3
    /\ adv.bases_after = adv.bases_before
    /\ adv.runs_scored = 0

\* what a call returns or raises, without the stream
AdvOutcome(r) == <<r.bases, r.runs_scored, r.raised>>

\* the outcome of the call of this state in deterministic mode
DeterministicOutcome ==
    AdvOutcome(AdvanceRunners(
        [config EXCEPT !.ENABLE_PROBABILISTIC_BASERUNNING = FALSE],
        adv.hit_type, adv.bases_before, adv.batter, TapeRng(<<>>)))

\* the outcomes of the call of this state in probabilistic mode, over the
\* variates its stream can return
ProbabilisticOutcomes ==
    {AdvOutcome(AdvanceRunners(
         [config EXCEPT !.ENABLE_PROBABILISTIC_BASERUNNING = TRUE],
         adv.hit_type, adv.bases_before, adv.batter, TapeRng(t))) :
       t \in UniformCoarse \X UniformCoarse}

\* C23: the result of a deterministic call is one of the results the
\* probabilistic mode can produce on the same arguments, and on OUT, WALK,
\* TRIPLE and HR a probabilistic call returns the deterministic result.
C23_ProbabilisticIncludesDeterministic ==
    adv.phase = "called" =>
        /\ ~config.ENABLE_PROBABILISTIC_BASERUNNING =>
              /\ <<adv.bases_after, adv.runs_scored, adv.raised>>
                    = DeterministicOutcome
              /\ DeterministicOutcome \in ProbabilisticOutcomes
        /\ (/\ config.ENABLE_PROBABILISTIC_BASERUNNING
            /\ adv.hit_type \in {"OUT", "WALK", "TRIPLE", "HR"}) =>
              <<adv.bases_after, adv.runs_scored, adv.raised>>
                  = DeterministicOutcome

\* C23 witness: a deterministic double with runners on first and second,
\* which the probabilistic mode reproduces only when the runner from second
\* scores and the runner from first holds
C23_Witness ==
    /\ Called
    /\ ~config.ENABLE_PROBABILISTIC_BASERUNNING
    /\ adv.hit_type = "DOUBLE"
    /\ adv.bases_before.first # None
    /\ adv.bases_before.second # None
    /\ adv.bases_after.third = adv.bases_before.first
    /\ adv.runs_scored = 1
    /\ Cardinality(ProbabilisticOutcomes) > 1

\* C24: in probabilistic mode on SINGLE, a runner on first ends on third only
\* when no runner advanced from second to third, and otherwise on second; he
\* never scores and never remains on first.
C24_SingleRunnerFromFirst ==
    (/\ Called
     /\ config.ENABLE_PROBABILISTIC_BASERUNNING
     /\ adv.hit_type = "SINGLE"
     /\ adv.bases_before.first # None) =>
        LET b == adv.bases_before
            a == adv.bases_after
        IN  /\ a.first = adv.batter
            /\ \/ a.third = b.first /\ a.second = None /\ b.second = None
               \/ a.second = b.first /\ a.third = b.second
            /\ adv.runs_scored = IF b.third # None THEN 1 ELSE 0

\* C24 witness: the runner from first took third, which the runner who
\* scored had left
C24_Witness ==
    /\ Called
    /\ config.ENABLE_PROBABILISTIC_BASERUNNING
    /\ adv.hit_type = "SINGLE"
    /\ adv.bases_before.first # None
    /\ adv.bases_before.third # None
    /\ adv.bases_after.third = adv.bases_before.first
    /\ adv.runs_scored = 1

-----------------------------------------------------------------------------
(* Claims about the modifiers of a plate appearance (Spec)                  *)

\* C25: a sacrifice fly happens only on an out with third base occupied and
\* fewer than 2 outs; it scores exactly 1 run, empties third base, leaves the
\* runners on first and second where they are, and the out is recorded.
C25_SacrificeFly ==
    [][(pc = "pa" /\ inning'.sac_flies # inning.sac_flies) =>
          /\ inning'.outcome = "OUT"
          /\ inning.bases.third # None
          /\ inning.outs < 2
          /\ inning'.sac_flies = inning.sac_flies + 1
          /\ inning'.runs = inning.runs + 1
          /\ inning'.bases = [inning.bases EXCEPT !.third = None]
          /\ inning'.outs = inning.outs + 1]_vars

\* C25 witness: a sacrifice fly with a runner on first, who is still there
C25_Witness ==
    /\ pc = "steal"
    /\ inning.outcome = "OUT"
    /\ inning.is_sf
    /\ inning.sac_flies = 1
    /\ inning.bases.first # None
    /\ inning.bases.third = None
    /\ inning.runs >= 1

-----------------------------------------------------------------------------
(* Claims about check_steal_opportunities (SpecCall)                        *)

\* C26: with 2 or more outs no steal is attempted: the bases come back
\* unchanged with 0 additional outs, whatever the occupancy.
C26_NoStealWithTwoOuts ==
    (Returned("check_steal_opportunities") /\ call.outs >= 2) =>
        /\ call.result.bases = call.bases
        /\ call.result.additional_outs = 0
        /\ call.result.draws = 0

\* C26 witness: 2 outs, the lineup's most frequent stealer alone on first and
\* variates that would send him and get him there
C26_Witness ==
    /\ Returned("check_steal_opportunities")
    /\ call.outs = 2
    /\ call.bases = [first |-> 1, second |-> None, third |-> None]
    /\ call.tape = <<0, 0, 0, 0>>
    /\ call.result.bases = call.bases

-----------------------------------------------------------------------------
(* Claims about the steal check of the half-inning (Spec)                   *)

\* a runner whom check_steal_opportunities would consider
StealCandidate(bases) ==
    \/ bases.second # None /\ bases.third = None
    \/ bases.first # None /\ bases.second = None

\* C27: a caught stealing in the steal check can record the third out, and
\* then the half-inning ends at once, without a plate appearance and without
\* advancing the batter index: with 2 outs and a runner the check considers,
\* the steal check can end the half-inning.
C27_CaughtStealingEndsInning ==
    (/\ pc = "steal"
     /\ config.ENABLE_STOLEN_BASES
     /\ inning.outs = 2
     /\ StealCandidate(inning.bases)) =>
        ENABLED (/\ StealCheck
                 /\ pc' = "returned"
                 /\ inning'.outs = 3
                 /\ inning'.batter_idx = inning.batter_idx
                 /\ inning'.pa_count = inning.pa_count)

\* C27 amended: the steal check never records the third out: it adds an out
\* only when there were fewer than 2, so it leaves at most 2 outs and the loop
\* goes on to the error check; it samples no plate appearance and leaves the
\* batter index alone.
C27_StealCheckNeverEndsInning ==
    [][pc = "steal" =>
          /\ pc' = "error"
          /\ inning'.outs \in {inning.outs, inning.outs + 1}
          /\ inning'.outs > inning.outs => inning.outs < 2
          /\ inning'.outs <= 2
          /\ inning'.batter_idx = inning.batter_idx
          /\ inning'.pa_count = inning.pa_count]_vars

\* C27 witness: two runners caught stealing after two hits; the second of
\* them was the second out and the loop went on
C27_Witness ==
    /\ pc = "error"
    /\ inning.outs = 2
    /\ inning.pa_count = 2
    /\ inning.hits + inning.walks = 2
    /\ inning.sb_attempts = 2
    /\ inning.sb_success = 0

-----------------------------------------------------------------------------
(* Claims about a steal attempt (SpecCall)                                  *)

\* an attempt was made: should_attempt_steal drew a variate and said yes,
\* attempt_stolen_base drew the second
StealAttempted == call.result.draws = 2

\* C28: a steal attempt changes exactly one runner: on success he moves up
\* one base, onto a base that was empty, and no out is added; on failure he
\* is removed and exactly one out is added; every other base is left as it
\* was.  Without an attempt nothing changes.
C28_StealChangesOneRunner ==
    Returned("check_steal_opportunities") =>
        LET b == call.bases
            a == call.result.bases
            outs == call.result.additional_outs
        IN  IF StealAttempted
            THEN \/ /\ b.second # None /\ b.third = None
                    /\ a = [b EXCEPT !.second = None, !.third = b.second]
                    /\ outs = 0
                 \/ /\ b.first # None /\ b.second = None
                    /\ a = [b EXCEPT !.first = None, !.second = b.first]
                    /\ outs = 0
                 \/ /\ b.second # None
                    /\ a = [b EXCEPT !.second = None]
                    /\ outs = 1
                 \/ /\ b.first # None
                    /\ a = [b EXCEPT !.first = None]
                    /\ outs = 1
            ELSE a = b /\ outs = 0

\* C28 witness: the runner on second is caught stealing third while the
\* runner on first stays
C28_Witness ==
    /\ Returned("check_steal_opportunities")
    /\ StealAttempted
    /\ call.bases.first # None
    /\ call.bases.second # None
    /\ call.result.bases = [call.bases EXCEPT !.second = None]
    /\ call.result.additional_outs = 1

\* the runners of before the call who are not where they were
Displaced(before, after) ==
    {x \in Occupied(before) :
        x \notin Occupied(after) \/ BaseOf(after, x) # BaseOf(before, x)}

-----------------------------------------------------------------------------
(* Claims about the error check of the half-inning (Spec)                   *)

\* C30: when an error or wild pitch occurs before a plate appearance, every
\* runner advances exactly one base (a runner on third scores exactly 1 run),
\* first base is left empty, no out is recorded, and the same batter then
\* takes the plate appearance; when none occurs nothing changes.
C30_ErrorAdvancesEveryRunner ==
    [][pc = "error" =>
          /\ pc' = "pa"
          /\ inning'.outs = inning.outs
          /\ inning'.batter_idx = inning.batter_idx
          /\ inning'.pa_count = inning.pa_count
          /\ \/ inning' = inning
             \/ /\ inning'.bases = [first |-> None,
                                    second |-> inning.bases.first,
                                    third |-> inning.bases.second]
                /\ inning'.runs = inning.runs
                      + (IF inning.bases.third # None THEN 1 ELSE 0)]_vars

\* C30 witness: the first batter tripled and an error brought him home
\* before the second batter's plate appearance
C30_Witness ==
    /\ pc = "pa"
    /\ inning.outcome = "TRIPLE"
    /\ inning.pa_count = 1
    /\ inning.outs = 0
    /\ inning.runs = 1
    /\ inning.bases = CreateEmptyBases
    /\ inning.batter_idx = (inning.starting_batter_idx + 1) % LINEUP_SIZE

-----------------------------------------------------------------------------
(* Claims about the order of the loop of simulate_half_inning (Spec)        *)

\* C31: within one iteration the modifiers run in the order steal check,
\* error check, plate appearance: a steal is attempted only in the steal
\* check, which the error check follows unless the inning is over; the error
\* check attempts no steal and samples no plate appearance, and the plate
\* appearance follows it; a plate appearance is counted only in the step
\* after the error check, and the next iteration's steal check follows it.
C31_StealThenErrorThenPA ==
    [][/\ pc = "steal" =>
             /\ pc' \in {"error", "returned"}
             /\ inning'.pa_count = inning.pa_count
       /\ pc = "error" =>
             /\ pc' = "pa"
             /\ inning'.sb_attempts = inning.sb_attempts
             /\ inning'.pa_count = inning.pa_count
       /\ pc = "pa" =>
             /\ pc' \in {"steal", "returned", "raised"}
             /\ inning'.pa_count = inning.pa_count + 1
             /\ inning'.sb_attempts = inning.sb_attempts]_vars

\* C31 witness: before the second plate appearance the first batter, who
\* singled, has stolen second and has been moved to third by an error
C31_Witness ==
    /\ pc = "pa"
    /\ inning.pa_count = 1
    /\ inning.outcome = "SINGLE"
    /\ inning.sb_success = 1
    /\ inning.bases.third # None
    /\ inning.runs = 0

\* C32: within one iteration the transitions run in the order error check,
\* steal check, sampling of the plate-appearance outcome.
C32_ErrorThenStealThenPA ==
    [][/\ pc = "error" => pc' = "steal"
       /\ pc = "steal" => pc' \in {"pa", "returned"}
       /\ pc = "pa" => pc' \in {"error", "returned", "raised"}]_vars

\* C32 amended: the steal check comes first: an error check is entered only
\* from a steal check, the plate appearance only from an error check, and a
\* steal check only from a plate appearance.
C32_StealCheckComesFirst ==
    [][/\ pc' = "error" => pc = "steal"
       /\ pc' = "pa" => pc = "error"
       /\ pc' = "steal" => pc = "pa"
       /\ pc' = "returned" => pc \in {"steal", "pa"}]_vars

\* C32 witness: the runner who singled was caught stealing before the error
\* check and the second plate appearance
C32_Witness ==
    /\ pc = "pa"
    /\ inning.pa_count = 1
    /\ inning.outcome = "SINGLE"
    /\ inning.sb_attempts = 1
    /\ inning.sb_success = 0
    /\ inning.outs = 1
    /\ inning.bases = CreateEmptyBases

\* C33: when a half-inning has returned, hits + walks = runs + lob +
\* (sb_attempts - sb_success): every batter who reached base has scored, has
\* been caught stealing or is left on base.
C33_RunnerConservation ==
    pc = "returned" =>
        inning.hits + inning.walks =
            inning.runs + inning.lob
                + (inning.sb_attempts - inning.sb_success)

-----------------------------------------------------------------------------
(* Claims about the end of a SimulationRunner run (SpecBatch)               *)

\* C34: a run started with run_in_thread invokes complete_callback exactly
\* once, whenever stop() arrives: when the worker thread has ended, exactly
\* one payload (the report, None or an error record) has been delivered.
C34_CompleteCalledOnce ==
    sim_runner.phase = "done" => Len(sim_runner.completed) = 1

\* the runs started and the runs finished
RunsStarted == {p \in Panels : sim_runner.threads[p].phase # "idle"}

RunsFinished == {p \in Panels : sim_runner.threads[p].phase = "done"}

\* C35: once every run started through the runner has finished, the config
\* attributes hold the values they had before the first run started, also
\* when the runs of the two panels overlap.
C35_ConfigRestoredAfterAllRuns ==
    (RunsStarted # {} /\ RunsFinished = RunsStarted)
        => config = sim_runner.started_with

-----------------------------------------------------------------------------
(* Claims about the batter index of simulate_half_inning (Spec)             *)

\* C36: the batter index advances by exactly 1 modulo 9 with every plate
\* appearance that is handled and is not changed by the steal check or the
\* error check; the index simulate_half_inning returns is (starting index +
\* number of plate appearances) mod 9 and lies in 0..8.
C36_BatterIndexAdvances ==
    [][/\ (pc = "pa" /\ pc' # "raised") =>
             inning'.batter_idx = (inning.batter_idx + 1) % 9
       /\ pc \in {"steal", "error"} =>
             inning'.batter_idx = inning.batter_idx
       /\ pc' = "returned" =>
             /\ inning'.batter_idx =
                    (inning'.starting_batter_idx + inning'.pa_count) % 9
             /\ inning'.batter_idx \in 0..8]_vars

\* C36 witness: a half-inning that started with the eighth batter has
\* returned after four plate appearances with the third batter up next: the
\* order wrapped around
C36_Witness ==
    /\ pc = "returned"
    /\ inning.starting_batter_idx = LINEUP_SIZE - 2
    /\ inning.pa_count = 4
    /\ inning.batter_idx = 2

-----------------------------------------------------------------------------
(* Claims about generate_outcome (SpecCall)                                 *)

\* the sum of the probabilities of the outcomes before the k-th and the k-th
PartialSum(probs, k) ==
    FSum([i \in 1..k |-> probs[Outcomes[i]]], 1..k)

\* C37: when the draw is below the distribution's total, generate_outcome
\* returns the first outcome, in the order OUT, STRIKEOUT, WALK, SINGLE,
\* DOUBLE, TRIPLE, HR, whose cumulative probability strictly exceeds the
\* draw, and that outcome does not have probability 0.
C37_FirstOutcomeExceedingDraw ==
    (/\ Returned("generate_outcome")
     /\ call.rand < PartialSum(call.pa_probs, Len(Outcomes))) =>
        /\ \E k \in 1..Len(Outcomes) :
              /\ call.result.outcome = Outcomes[k]
              /\ call.rand < PartialSum(call.pa_probs, k)
              /\ \A j \in 1..(k - 1) : call.rand >= PartialSum(call.pa_probs, j)
        /\ call.pa_probs[call.result.outcome] # 0

\* C37 witness: a draw equal to the cumulative probability of OUT, with
\* STRIKEOUT at probability 0, gives WALK
C37_Witness ==
    /\ Returned("generate_outcome")
    /\ call.pa_probs = ContactPaProbs
    /\ call.rand = 6500
    /\ call.result.outcome = "WALK"

-----------------------------------------------------------------------------
(* Claims about the bases mapping a modifier is given (SpecObjects)         *)

\* C38: advance_runners, check_steal_opportunities, check_sacrifice_fly and
\* check_error_advances_runner do not modify the mapping passed to them: after
\* the call the caller's mapping has the contents it had before, and the
\* mapping returned differs from it exactly when the function's result
\* differs from its argument; a change is returned in another object.
C38_ArgumentNotModified ==
    call.fn # "idle" =>
        /\ call.caller_bases = call.bases
        /\ ~call.raised =>
              /\ call.returned = call.expected
              /\ (call.returned # call.caller_bases) = (call.expected # call.bases)
              /\ call.returned # call.bases => ~call.same_object

\* C38 witness: an error moved the runners of first and second along; the
\* caller received a second object and its own mapping still has them where
\* they were
C38_Witness ==
    /\ call.fn = "check_error_advances_runner"
    /\ call.bases = [first |-> 1, second |-> 2, third |-> None]
    /\ call.returned = [first |-> None, second |-> 1, third |-> 2]
    /\ call.caller_bases = call.bases
    /\ ~call.same_object

-----------------------------------------------------------------------------
(* Claims about the smoothing of the hit distribution (SpecCall)            *)

\* the total of a player's hit counts
TotalHits(player) ==
    player.singles + player.doubles + player.triples + player.hr

\* the empirical share of a hit type
Empirical(player, k) ==
    (HitDist(player.singles, player.doubles, player.triples, player.hr)[k] * Scale)
        \div TotalHits(player)

\* C39: with 0 < total hits < the configured minimum-hits threshold each
\* hit-type probability is (league * prior_weight + empirical * total_hits) /
\* (prior_weight + total_hits) with the configured prior weight, and with
\* total hits at or above the configured threshold it is the empirical
\* ratio: the result follows the two configured constants.
C39_BlendUsesConfiguredConstants ==
    (Returned("calculate_hit_distribution") /\ TotalHits(call.player) > 0) =>
        \A k \in DOMAIN call.result.hit_dist :
            call.result.hit_dist[k] =
                IF TotalHits(call.player) < call.config_MIN_HITS_FOR_ACTUAL_DIST
                THEN (LEAGUE_AVG_HIT_DISTRIBUTION[k] * call.config_BAYESIAN_PRIOR_WEIGHT
                        + Empirical(call.player, k) * TotalHits(call.player))
                     \div (call.config_BAYESIAN_PRIOR_WEIGHT + TotalHits(call.player))
                ELSE Empirical(call.player, k)

====
